---- MODULE Spec2Model ----
(***************************************************************************)
(* LayerSnapshotBuilder (services/surfaceflinger/FrontEnd): the store of   *)
(* layer snapshots, the fast paths, the hierarchy walk, the z-order pass   *)
(* and the eviction of destroyed layers, driven by a small layer tree.     *)
(***************************************************************************)
EXTENDS Integers, Sequences, FiniteSets, TLC

\* ------------------------------------------------------------------ bounds
MaxMutations == 2

LayerIds == {1, 2, 3}
UNASSIGNED_LAYER_ID == 0
\* ------------------------------------------------------------ sequences
SeqToSet(s) == {s[i] : i \in 1..Len(s)}

SwapAt(s, i, j) == [s EXCEPT ![i] = s[j], ![j] = s[i]]

\* ------------------------------------------------------------- variables
VARIABLES
  layers,            \* LayerLifecycleManager::getLayers(): id -> RequestedLayerState
  destroyedLayers,   \* LayerLifecycleManager::getDestroyedLayers() (ids)
  globalChanges,     \* LayerLifecycleManager::getGlobalChanges()
  displays,          \* Args::displays
  displayChanges,    \* Args::displayChanges of the next update
  mSnapshots,        \* LayerSnapshotBuilder::mSnapshots: the pointers, in array order
  heap,              \* the LayerSnapshot objects, by the key each was created for
  mIdToSnapshot,     \* LayerSnapshotBuilder::mIdToSnapshot (its keys)
  mRootSnapshot,     \* LayerSnapshotBuilder::mRootSnapshot
  phase,             \* "txn" | "updated" | "crashed"
  fault,             \* the last update addressed mSnapshots outside its length
  last,              \* what the last update() call did, and whether it was forced
  budget,            \* mutations the environment may still apply
  call               \* the call of a file-local helper under study, and its result

vars ==
  <<layers, destroyedLayers, globalChanges, displays, displayChanges,
    mSnapshots, heap, mIdToSnapshot, mRootSnapshot, phase, fault, last, budget,
    call>>

\* ------------------------------------------------ LayerHierarchy (tree owner)
ROOT == [id |-> UNASSIGNED_LAYER_ID, variant |-> "Attached",
         relativeRootId |-> UNASSIGNED_LAYER_ID, mirrorRootIds |-> <<>>]

\* TraversalPath::operator== and its hash: the leaf id and the mirror roots
Key(path) == [id |-> path.id, mirrorRootIds |-> path.mirrorRootIds]

isRelative(path) == path.relativeRootId # UNASSIGNED_LAYER_ID
isAttached(path) == path.variant = "Attached"
isClone(path) == path.mirrorRootIds # <<>>

ScopedAddToTraversalPath(path, layerId, variant) ==
  [id |-> layerId,
   variant |-> variant,
   relativeRootId |-> IF variant = "Relative" THEN layerId ELSE path.relativeRootId,
   mirrorRootIds |-> IF variant = "Mirror" THEN Append(path.mirrorRootIds, path.id)
                     ELSE path.mirrorRootIds]

Alive(L) == {l \in LayerIds : L[l].life = "alive"}

\* the edge from node n to layer l, if the tree has one
EdgesTo(L, n, l) ==
  (IF L[l].relativeParentId = UNASSIGNED_LAYER_ID /\ L[l].parentId = n
   THEN <<[id |-> l, variant |-> "Attached"]>> ELSE <<>>)
  \o (IF n # UNASSIGNED_LAYER_ID /\ L[l].relativeParentId = n
      THEN <<[id |-> l, variant |-> "Relative"]>> ELSE <<>>)
  \o (IF n # UNASSIGNED_LAYER_ID /\ L[n].layerIdToMirror = l
      THEN <<[id |-> l, variant |-> "Mirror"]>> ELSE <<>>)

\* LayerHierarchy::mChildren of node n (n = UNASSIGNED_LAYER_ID: the root),
\* in the order of the layer ids
Children(L, n) ==
  (IF L[1].life = "alive" THEN EdgesTo(L, n, 1) ELSE <<>>)
  \o (IF L[2].life = "alive" THEN EdgesTo(L, n, 2) ELSE <<>>)
  \o (IF L[3].life = "alive" THEN EdgesTo(L, n, 3) ELSE <<>>)

\* ------------------------------------------------- ui::Transform, FloatRect
\* A transform maps (x, y) to (dsdx*x + dtdx*y + tx, dtdy*x + dsdy*y + ty).
\* finite is FALSE when a component is infinite or not a number; such a
\* transform has no other information. The transforms of the model have whole
\* components and a determinant of 1, -1 or 0, so that every quotient of an
\* inverse is whole.
Abs(v) == IF v >= 0 THEN v ELSE 0 - v

Min(a, b) == IF a <= b THEN a ELSE b

Max(a, b) == IF a >= b THEN a ELSE b

IdentityTransform ==
  [dsdx |-> 1, dtdx |-> 0, dtdy |-> 0, dsdy |-> 1, tx |-> 0, ty |-> 0, finite |-> TRUE]

NonFiniteTransform ==
  [dsdx |-> 0, dtdx |-> 0, dtdy |-> 0, dsdy |-> 0, tx |-> 0, ty |-> 0, finite |-> FALSE]

Translate(x, y) == [IdentityTransform EXCEPT !.tx = x, !.ty = y]

\* a transform that scales by zero: it has no inverse
ScaleZero == [IdentityTransform EXCEPT !.dsdx = 0, !.dsdy = 0]

\* ui::Transform::operator*: (p * l) applies l, then p
Compose(p, l) ==
  IF ~p.finite \/ ~l.finite THEN NonFiniteTransform
  ELSE [dsdx |-> p.dsdx * l.dsdx + p.dtdx * l.dtdy,
        dtdx |-> p.dsdx * l.dtdx + p.dtdx * l.dsdy,
        dtdy |-> p.dtdy * l.dsdx + p.dsdy * l.dtdy,
        dsdy |-> p.dtdy * l.dtdx + p.dsdy * l.dsdy,
        tx |-> p.dsdx * l.tx + p.dtdx * l.ty + p.tx,
        ty |-> p.dtdy * l.tx + p.dsdy * l.ty + p.ty,
        finite |-> TRUE]

\* ui::Transform::det
Det(t) == t.dsdx * t.dsdy - t.dtdx * t.dtdy

\* ui::Transform::inverse: the adjugate over the determinant; a division by
\* a determinant of zero leaves no finite component
Inverse(t) ==
  IF ~t.finite \/ Det(t) = 0 THEN NonFiniteTransform
  ELSE LET det == Det(t)
           a == t.dsdy \div det
           b == (0 - t.dtdx) \div det
           c == (0 - t.dtdy) \div det
           d == t.dsdx \div det
       IN [dsdx |-> a, dtdx |-> b, dtdy |-> c, dsdy |-> d,
           tx |-> 0 - (a * t.tx + b * t.ty),
           ty |-> 0 - (c * t.tx + d * t.ty),
           finite |-> TRUE]

\* ui::Transform::getScaleX / getScaleY of a transform that maps each axis
\* onto an axis: sqrt(dsdx^2 + dtdy^2), sqrt(dtdx^2 + dsdy^2)
getScaleX(t) == Abs(t.dsdx) + Abs(t.dtdy)

getScaleY(t) == Abs(t.dtdx) + Abs(t.dsdy)

NonFiniteRect == [left |-> 0, top |-> 0, right |-> 0, bottom |-> 0, finite |-> FALSE]

\* ui::Transform::transform(const FloatRect&): the box of the four corners
TransformRect(t, r) ==
  IF ~t.finite \/ ~r.finite THEN NonFiniteRect
  ELSE LET x(px, py) == t.dsdx * px + t.dtdx * py + t.tx
           y(px, py) == t.dtdy * px + t.dsdy * py + t.ty
           xs == {x(r.left, r.top), x(r.right, r.top), x(r.left, r.bottom), x(r.right, r.bottom)}
           ys == {y(r.left, r.top), y(r.right, r.top), y(r.left, r.bottom), y(r.right, r.bottom)}
       IN [left |-> CHOOSE v \in xs : \A w \in xs : v <= w,
           top |-> CHOOSE v \in ys : \A w \in ys : v <= w,
           right |-> CHOOSE v \in xs : \A w \in xs : v >= w,
           bottom |-> CHOOSE v \in ys : \A w \in ys : v >= w,
           finite |-> TRUE]

\* FloatRect::intersect: the empty rectangle when the two do not overlap
RectIntersect(a, b) ==
  IF ~a.finite \/ ~b.finite THEN NonFiniteRect
  ELSE LET i == [left |-> Max(a.left, b.left), top |-> Max(a.top, b.top),
                 right |-> Min(a.right, b.right), bottom |-> Min(a.bottom, b.bottom),
                 finite |-> TRUE]
       IN IF i.right - i.left <= 0 \/ i.bottom - i.top <= 0
          THEN [left |-> 0, top |-> 0, right |-> 0, bottom |-> 0, finite |-> TRUE]
          ELSE i

\* FloatRect::isEmpty: !(left < right && top < bottom); a comparison with a
\* value that is not a number is false
RectIsEmpty(r) == ~(r.finite /\ r.left < r.right /\ r.top < r.bottom)

\* ---------------------------------------------------------- LayerSnapshot
EmptyRect == [left |-> 0, top |-> 0, right |-> 0, bottom |-> 0, finite |-> TRUE]

\* Rect::INVALID_RECT
InvalidRect == [left |-> 0, top |-> 0, right |-> 0 - 1, bottom |-> 0 - 1, finite |-> TRUE]

\* Rect::isValid: neither its width nor its height is negative
RectIsValid(r) == r.right - r.left >= 0 /\ r.bottom - r.top >= 0

DEFAULT_LAYER_STACK == 0

\* gui::WindowInfo as a new LayerSnapshot holds it: no flag of inputConfig,
\* no inset, an empty touchable region (a Region is the set of its
\* rectangles) that a crop does not replace.
DefaultWindowInfo ==
  [inputConfig |-> {}, frame |-> EmptyRect, transform |-> IdentityTransform,
   surfaceInset |-> 0, touchableRegion |-> {},
   replaceTouchableRegionWithCrop |-> FALSE]

\* renderengine::ShadowSettings as a new LayerSnapshot holds it: its length
\* and its boundaries
DefaultShadowSettings == [length |-> 0, boundaries |-> EmptyRect]

NullPtr == [id |-> UNASSIGNED_LAYER_ID, mirrorRootIds |-> <<>>]
RootPtr == [id |-> UNASSIGNED_LAYER_ID, mirrorRootIds |-> <<0>>]
InvalidPtr == [id |-> 0 - 1, mirrorRootIds |-> <<>>]

\* LayerSnapshot(const RequestedLayerState&, const TraversalPath&)
NewSnapshot(layer, path) ==
  [path |-> path,
   changes |-> {},
   contentDirty |-> FALSE,
   isHiddenByPolicyFromParent |-> FALSE,
   isHiddenByPolicyFromRelativeParent |-> FALSE,
   isVisible |-> FALSE,
   globalZ |-> 0,
   color |-> 0,
   geomLayerBounds |-> EmptyRect,
   localTransform |-> IdentityTransform,
   parentTransform |-> IdentityTransform,
   geomLayerTransform |-> IdentityTransform,
   geomInverseLayerTransform |-> IdentityTransform,
   invalidTransform |-> FALSE,
   isHdrY410 |-> FALSE,
   externalTexture |-> FALSE,
   croppedBufferSize |-> InvalidRect,
   transformedBounds |-> EmptyRect,
   alpha |-> 100,
   isSecure |-> FALSE,
   layerStack |-> DEFAULT_LAYER_STACK,
   dropInputMode |-> "NONE",
   inputInfo |-> DefaultWindowInfo,
   shadowRadius |-> 0,
   shadowSettings |-> DefaultShadowSettings,
   forceClientComposition |-> FALSE,
   layerMetadata |-> {},
   relativeLayerMetadata |-> {}]

isHiddenByPolicy(snapshot) ==
  snapshot.isHiddenByPolicyFromParent \/ snapshot.isHiddenByPolicyFromRelativeParent

\* hasSomethingToDraw: a colour of the model that is not 0
getIsVisible(snapshot) == snapshot.color # 0 /\ ~isHiddenByPolicy(snapshot)

\* ------------------------------------------------------ file-local helpers
DefaultDisplaySize == 5000

RECURSIVE MaxOver(_, _)
MaxOver(S, field) ==
  IF S = {} THEN 0
  ELSE LET d == CHOOSE x \in S : TRUE IN Max(d[field], MaxOver(S \ {d}, field))

getMaxDisplayBounds(ds) ==
  LET w == IF ds = {} THEN DefaultDisplaySize ELSE MaxOver(ds, "logicalWidth")
      h == IF ds = {} THEN DefaultDisplaySize ELSE MaxOver(ds, "logicalHeight")
      xMax == w * 10
      yMax == h * 10
  IN [left |-> 0 - xMax, top |-> 0 - yMax, right |-> xMax, bottom |-> yMax,
      finite |-> TRUE]

\* ---- transformTouchableRegionSafely
INT32_MAX == 2147483647
INT32_MIN == (0 - INT32_MAX) - 1

\* an addition that forgets to report its overflow
add_wraps(a, b) ==
  [overflow |-> FALSE,
   res |-> IF b >= 0 /\ a > INT32_MAX - b THEN (a + INT32_MIN) + (b + INT32_MIN)
           ELSE IF b < 0 /\ a < INT32_MIN - b THEN (a - INT32_MIN) + (b - INT32_MIN)
           ELSE a + b]

\* __builtin_add_overflow on two int32_t: whether the sum leaves the type,
\* and the wrapped sum it stores
add_overflow(a, b) ==
  IF b >= 0 /\ a > INT32_MAX - b
  THEN [overflow |-> TRUE, res |-> (a + INT32_MIN) + (b + INT32_MIN)]
  ELSE IF b < 0 /\ a < INT32_MIN - b
  THEN [overflow |-> TRUE, res |-> (a - INT32_MIN) + (b - INT32_MIN)]
  ELSE [overflow |-> FALSE, res |-> a + b]

\* static_cast<int32_t>(v + 0.5) of a float v that holds a whole number inside
\* the range of int32_t: the sum is truncated towards zero
roundTranslation(v) == IF v >= 0 THEN v ELSE v + 1

\* the body of the loop over the rectangles of the transformed region
translateRect(ret, rect, tx, ty) ==
  LET l == add_overflow(rect.left, tx)
      t == add_overflow(rect.top, ty)
      r == add_overflow(rect.right, tx)
      b == add_overflow(rect.bottom, ty)
  IN IF l.overflow \/ t.overflow \/ r.overflow \/ b.overflow THEN ret
     ELSE ret \cup {[left |-> l.res, top |-> t.res, right |-> r.res, bottom |-> b.res]}

RECURSIVE translateRects(_, _, _, _)
\* for (const auto& rect : transformed); a Region is the set of its rectangles
translateRects(ret, transformed, tx, ty) ==
  IF transformed = {} THEN ret
  ELSE LET rect == CHOOSE x \in transformed : TRUE
       IN translateRects(translateRect(ret, rect, tx, ty), transformed \ {rect}, tx, ty)

\* a rectangle of a Region: four int32_t
RegionRect(r) == [left |-> r.left, top |-> r.top, right |-> r.right, bottom |-> r.bottom]

\* transformWithoutOffset.transform(r): a transform whose matrix without the
\* offset is the identity leaves the region as it is; any other transform of
\* the model is finite and maps every rectangle onto the box of its corners
transformWithoutOffset(t, r) ==
  IF [t EXCEPT !.tx = 0, !.ty = 0] = IdentityTransform \/ ~t.finite THEN r
  ELSE {RegionRect(TransformRect([t EXCEPT !.tx = 0, !.ty = 0],
                                 [left |-> x.left, top |-> x.top, right |-> x.right,
                                  bottom |-> x.bottom, finite |-> TRUE])) : x \in r}

transformTouchableRegionSafely(t, r) ==
  LET tx == roundTranslation(t.tx)
      ty == roundTranslation(t.ty)
      transformed == transformWithoutOffset(t, r)
  IN translateRects({}, transformed, tx, ty)

\* Region(const Rect&): the region of one rectangle, empty when the rectangle
\* is empty
RegionOf(rect) ==
  IF ~rect.finite \/ rect.right <= rect.left \/ rect.bottom <= rect.top THEN {}
  ELSE {RegionRect(rect)}

\* Region::intersect(const Rect&)
regionIntersect(region, rect) ==
  IF ~rect.finite THEN {}
  ELSE {x \in {[left |-> Max(y.left, rect.left), top |-> Max(y.top, rect.top),
                right |-> Min(y.right, rect.right),
                bottom |-> Min(y.bottom, rect.bottom)] : y \in region} :
          x.left < x.right /\ x.top < x.bottom}

\* ---- updateRoundedCorner
\* Rect::toFloatRect
toFloatRect(r) ==
  [left |-> r.left, top |-> r.top, right |-> r.right, bottom |-> r.bottom, finite |-> TRUE]

\* RoundedCornerState(): an empty crop rectangle and a radius of zero
NoRoundedCorner ==
  [cropRect |-> EmptyRect, radius |-> [x |-> 0, y |-> 0, finite |-> TRUE]]

\* RoundedCornerState::hasRoundedCorners: radius.x > 0 && radius.y > 0
hasRoundedCorners(rc) == rc.radius.finite /\ rc.radius.x > 0 /\ rc.radius.y > 0

\* a containment test that lets the edges touch
insideOrOnEdge(inner, outer) ==
  /\ inner.finite /\ outer.finite
  /\ inner.left >= outer.left /\ inner.top >= outer.top
  /\ inner.right <= outer.right /\ inner.bottom <= outer.bottom

\* the test of the parent's crop against the layer's crop
strictlyInside(inner, outer) ==
  /\ inner.finite /\ outer.finite
  /\ inner.left > outer.left /\ inner.top > outer.top
  /\ inner.right < outer.right /\ inner.bottom < outer.bottom

updateRoundedCorner(snapshot, requested, parentSnapshot) ==
  LET t == Inverse(snapshot.localTransform)
      parentRoundedCorner ==
        IF hasRoundedCorners(parentSnapshot.roundedCorner)
        THEN [cropRect |-> TransformRect(t, parentSnapshot.roundedCorner.cropRect),
              radius |-> IF t.finite
                         THEN [x |-> parentSnapshot.roundedCorner.radius.x * getScaleX(t),
                               y |-> parentSnapshot.roundedCorner.radius.y * getScaleY(t),
                               finite |-> TRUE]
                         ELSE [x |-> 0, y |-> 0, finite |-> FALSE]]
        ELSE NoRoundedCorner
      layerCropRect == toFloatRect(snapshot.croppedBufferSize)
      layerSettings ==
        [cropRect |-> layerCropRect,
         radius |-> [x |-> requested.cornerRadius, y |-> requested.cornerRadius,
                     finite |-> TRUE]]
      layerSettingsValid == hasRoundedCorners(layerSettings) /\ ~RectIsEmpty(layerCropRect)
      parentRoundedCornerValid == hasRoundedCorners(parentRoundedCorner)
  IN [snapshot EXCEPT !.roundedCorner =
        IF layerSettingsValid /\ parentRoundedCornerValid
        THEN IF strictlyInside(parentRoundedCorner.cropRect, layerCropRect)
             THEN parentRoundedCorner ELSE layerSettings
        ELSE IF layerSettingsValid THEN layerSettings
        ELSE IF parentRoundedCornerValid THEN parentRoundedCorner
        ELSE NoRoundedCorner]

getRootSnapshot ==
  [path |-> ROOT,
   changes |-> {},
   contentDirty |-> FALSE,
   isHiddenByPolicyFromParent |-> FALSE,
   isHiddenByPolicyFromRelativeParent |-> FALSE,
   isVisible |-> FALSE,
   globalZ |-> 0,
   color |-> 0,
   geomLayerBounds |-> getMaxDisplayBounds({}),
   localTransform |-> IdentityTransform,
   parentTransform |-> IdentityTransform,
   geomLayerTransform |-> IdentityTransform,
   geomInverseLayerTransform |-> IdentityTransform,
   invalidTransform |-> FALSE,
   isHdrY410 |-> FALSE,
   externalTexture |-> FALSE,
   croppedBufferSize |-> InvalidRect,
   transformedBounds |-> EmptyRect,
   alpha |-> 100,
   isSecure |-> FALSE,
   layerStack |-> DEFAULT_LAYER_STACK,
   dropInputMode |-> "NONE",
   inputInfo |-> DefaultWindowInfo,
   shadowRadius |-> 0,
   shadowSettings |-> DefaultShadowSettings,
   forceClientComposition |-> FALSE,
   layerMetadata |-> {},
   relativeLayerMetadata |-> {}]

\* ------------------------------------------------- LayerSnapshotBuilder
\* A builder state st is [snaps, objs, ids, root, fault, touched, relTouched,
\* evicted]:
\* snaps is mSnapshots (the unique_ptrs, named by the key of the object each
\* one owns), objs the LayerSnapshot objects they point to, ids the keys of
\* mIdToSnapshot (the pointer stored under a key is the object created for
\* that key), root is mRootSnapshot. fault is "none", "crash" (the call
\* faulted) or "corrupt" (it wrote through an out-of-range slot and went on).
\* touched / relTouched are the objects updateSnapshot / updateRelativeState
\* ran on in this call, evicted the objects its eviction loop erased.

\* a mask that lets Content and Created through
PropagatingWithContent ==
  {"Hierarchy", "Geometry", "Visibility", "Metadata", "AffectsChildren", "Content", "Created"}

PropagatingChanges ==
  {"Hierarchy", "Geometry", "Visibility", "Metadata", "AffectsChildren"}

Remove(f, k) == [x \in (DOMAIN f) \ {k} |-> f[x]]

getSnapshot(st, path) == IF Key(path) \in st.ids THEN Key(path) ELSE NullPtr

\* getSnapshot(uint32_t layerId)
getSnapshotOfLayerId(st, layerId) ==
  IF layerId = UNASSIGNED_LAYER_ID THEN NullPtr
  ELSE getSnapshot(st, [id |-> layerId, mirrorRootIds |-> <<>>])

getOrCreateSnapshot(st, path, layer) ==
  IF getSnapshot(st, path) # NullPtr THEN st
  ELSE [st EXCEPT
          !.snaps = Append(st.snaps, Key(path)),
          !.objs = (Key(path) :> [NewSnapshot(layer, path) EXCEPT
                                    !.globalZ = (Len(st.snaps) + 1) - 1]) @@ st.objs,
          !.ids = st.ids \cup {Key(path)}]

\* a LayerMetadata is modelled by the set of its keys
updateRelativeState(snapshot, parentSnapshot, parentIsRelative, args) ==
  LET s1 == IF parentIsRelative
            THEN [snapshot EXCEPT
                    !.isHiddenByPolicyFromRelativeParent =
                       parentSnapshot.isHiddenByPolicyFromParent,
                    !.relativeLayerMetadata =
                       IF args.includeMetadata THEN parentSnapshot.layerMetadata ELSE @]
            ELSE [snapshot EXCEPT
                    !.isHiddenByPolicyFromRelativeParent =
                       parentSnapshot.isHiddenByPolicyFromRelativeParent,
                    !.relativeLayerMetadata =
                       IF args.includeMetadata THEN parentSnapshot.relativeLayerMetadata
                       ELSE @]
  IN [s1 EXCEPT !.isVisible = getIsVisible(s1)]

\* a reset that leaves the relative metadata
resetRelativeHidden(snapshot) ==
  [snapshot EXCEPT !.isHiddenByPolicyFromRelativeParent = FALSE]

resetRelativeState(snapshot) ==
  [snapshot EXCEPT !.isHiddenByPolicyFromRelativeParent = FALSE,
                   !.relativeLayerMetadata = {}]

\* LayerSnapshot::isTransformValid: the transform can be inverted and has
\* no component that is infinite or not a number
isTransformValid(t) == t.finite /\ Det(t) # 0

\* a composition in the wrong order
composeChildFirst(parentSnapshot, localTransform) ==
  Compose(localTransform, parentSnapshot.geomLayerTransform)

\* parentSnapshot.geomLayerTransform * snapshot.localTransform
composeAbsolute(parentSnapshot, localTransform) ==
  Compose(parentSnapshot.geomLayerTransform, localTransform)

\* The layers of this model have no buffer and an empty crop, and no display
\* is primary (the rotation flags are 0): the local transform is the
\* requested transform, the bounds are the parent's bounds in local space.
updateLayerBounds(snapshot, requested, parentSnapshot) ==
  LET localTransform == requested.transform
      composed == composeAbsolute(parentSnapshot, localTransform)
      invalidTransform == ~isTransformValid(composed)
      geomLayerTransform == IF invalidTransform THEN IdentityTransform ELSE composed
      parentBounds == TransformRect(Inverse(localTransform), parentSnapshot.geomLayerBounds)
  IN [snapshot EXCEPT
        !.localTransform = localTransform,
        !.geomLayerTransform = geomLayerTransform,
        !.invalidTransform = invalidTransform,
        !.geomInverseLayerTransform = Inverse(geomLayerTransform),
        !.croppedBufferSize = InvalidRect,
        !.geomLayerBounds = RectIntersect(parentBounds, parentBounds),
        !.transformedBounds =
           TransformRect(geomLayerTransform, RectIntersect(parentBounds, parentBounds)),
        !.parentTransform = parentSnapshot.geomLayerTransform]

\* ---- the input geometry
\* the layers of the model have no sideband stream
hasBufferOrSidebandStream(snapshot) == snapshot.externalTexture

\* the local transform in the place of the absolute one
useLocalTransform(snapshot) ==
  IF ~hasBufferOrSidebandStream(snapshot) THEN snapshot.localTransform
  ELSE snapshot.parentTransform

getInputTransform(snapshot) ==
  IF ~hasBufferOrSidebandStream(snapshot) THEN snapshot.geomLayerTransform
  ELSE snapshot.parentTransform

getInputBounds(snapshot) ==
  IF ~hasBufferOrSidebandStream(snapshot) THEN snapshot.croppedBufferSize
  ELSE IF snapshot.localTransform = IdentityTransform
          \/ ~RectIsValid(snapshot.croppedBufferSize)
       THEN snapshot.croppedBufferSize
       ELSE TransformRect(snapshot.localTransform, snapshot.croppedBufferSize)

\* the surface inset clamped to half of a width or height; the widths and
\* heights of the model are even: their halves are whole
clampSurfaceInset(surfaceInset, length) == Max(0, Min(surfaceInset, length \div 2))

\* the frame and the transform of the window, from the bounds with the inset
\* taken off and the transform from the layer to the display; the touchable
\* region goes from the input space to the display space
fillFrameAndTransform(info, insetBoundsInLayer, layerToDisplay, snapshot) ==
  [info EXCEPT
     !.frame = TransformRect(layerToDisplay,
                             RectIntersect(snapshot.geomLayerBounds, insetBoundsInLayer)),
     !.transform =
        Inverse(Compose(layerToDisplay,
                        Translate(insetBoundsInLayer.left, insetBoundsInLayer.top))),
     !.touchableRegion =
        transformTouchableRegionSafely(
          Compose(layerToDisplay,
                  Translate(insetBoundsInLayer.left, insetBoundsInLayer.top)), @)]

\* insetBoundsInLayer: the input bounds with the clamped inset taken off
\* each side
fillInputFrameInfoFrom(info, screenToDisplay, snapshot, inputBoundsInLayer) ==
  LET xSurfaceInset == clampSurfaceInset(info.surfaceInset,
                                         inputBoundsInLayer.right - inputBoundsInLayer.left)
      ySurfaceInset == clampSurfaceInset(info.surfaceInset,
                                         inputBoundsInLayer.bottom - inputBoundsInLayer.top)
  IN fillFrameAndTransform(
       info,
       [left |-> inputBoundsInLayer.left + xSurfaceInset,
        top |-> inputBoundsInLayer.top + ySurfaceInset,
        right |-> inputBoundsInLayer.right - xSurfaceInset,
        bottom |-> inputBoundsInLayer.bottom - ySurfaceInset,
        finite |-> inputBoundsInLayer.finite],
       Compose(screenToDisplay, getInputTransform(snapshot)),
       snapshot)

\* input bounds that are not valid clear the touchable region and are
\* replaced by the empty rectangle
fillInputFrameInfo(info, screenToDisplay, snapshot) ==
  IF ~RectIsValid(getInputBounds(snapshot))
  THEN fillInputFrameInfoFrom([info EXCEPT !.touchableRegion = {}], screenToDisplay,
                              snapshot, EmptyRect)
  ELSE fillInputFrameInfoFrom(info, screenToDisplay, snapshot, getInputBounds(snapshot))

\* inputConfig |= flag
addInputConfig(snapshot, flag) ==
  [snapshot EXCEPT !.inputInfo.inputConfig = @ \cup {flag}]

\* the checks of the mode OBSCURED: the alpha of the parent, then the crop
handleObscured(snapshot, parentSnapshot, obscured) ==
  IF ~RectIsValid(snapshot.croppedBufferSize)
  THEN addInputConfig(obscured, "DROP_INPUT_IF_OBSCURED")
  ELSE IF TransformRect(snapshot.geomLayerTransform, snapshot.croppedBufferSize)
          # snapshot.transformedBounds
  THEN addInputConfig(obscured, "DROP_INPUT")
  ELSE addInputConfig(obscured, "DROP_INPUT_IF_OBSCURED")

handleDropInputMode(snapshot, parentSnapshot) ==
  IF "NO_INPUT_CHANNEL" \in snapshot.inputInfo.inputConfig THEN snapshot
  ELSE IF snapshot.dropInputMode = "ALL" THEN addInputConfig(snapshot, "DROP_INPUT")
  ELSE IF snapshot.dropInputMode # "OBSCURED" THEN snapshot
  ELSE handleObscured(snapshot, parentSnapshot,
                      IF parentSnapshot.alpha # 100
                      THEN addInputConfig(snapshot, "DROP_INPUT") ELSE snapshot)

\* args.displays.get(layerStack): the set is empty when there is none
displaysOf(ds, layerStack) == {d \in ds : d.layerStack = layerStack}

\* sDefaultInfo when there is no display: the screen transform of a default
\* DisplayInfo is the identity
displayInfoOf(ds, layerStack) ==
  IF displaysOf(ds, layerStack) = {}
  THEN [isSecure |-> FALSE, transform |-> IdentityTransform]
  ELSE CHOOSE d \in displaysOf(ds, layerStack) : TRUE

\* the most restrictive of the layer's mode and the parent snapshot's
mostRestrictive(own, inherited) ==
  IF own = "ALL" \/ inherited = "ALL" THEN "ALL"
  ELSE IF own = "OBSCURED" \/ inherited = "OBSCURED" THEN "OBSCURED"
  ELSE "NONE"

\* NOT_TOUCHABLE for a layer stack without a display, then
\* setInputConfig(NOT_VISIBLE, !visible)
markTouchableAndVisible(info, noValidDisplay, visible) ==
  [info EXCEPT !.inputConfig =
     ((IF noValidDisplay THEN @ \cup {"NOT_TOUCHABLE"} ELSE @) \ {"NOT_VISIBLE"})
       \cup (IF visible THEN {} ELSE {"NOT_VISIBLE"})]

\* a secure layer on a display that is not secure drops input
markSecure(snapshot, displayInfo) ==
  IF ~displayInfo.isSecure /\ snapshot.isSecure
  THEN addInputConfig(snapshot, "DROP_INPUT") ELSE snapshot

\* getSnapshot(requested.touchCropId)->transformedBounds in display space
cropBounds(st, touchCropId, displayInfo) ==
  TransformRect(displayInfo.transform,
                st.objs[getSnapshotOfLayerId(st, touchCropId)].transformedBounds)

\* a crop layer without a snapshot empties the touchable region
cropAbsentEmpties(st, snapshot, touchCropId, displayInfo) ==
  IF getSnapshotOfLayerId(st, touchCropId) = NullPtr
  THEN [snapshot EXCEPT !.inputInfo.touchableRegion = {}]
  ELSE IF snapshot.inputInfo.replaceTouchableRegionWithCrop
  THEN [snapshot EXCEPT !.inputInfo.touchableRegion =
          RegionOf(cropBounds(st, touchCropId, displayInfo))]
  ELSE [snapshot EXCEPT !.inputInfo.touchableRegion =
          regionIntersect(@, cropBounds(st, touchCropId, displayInfo))]

\* the touchable region replaced by, or intersected with, the bounds of the
\* snapshot of the touch crop layer
cropTouchableRegion(st, snapshot, touchCropId, displayInfo) ==
  IF snapshot.inputInfo.replaceTouchableRegionWithCrop
  THEN [snapshot EXCEPT !.inputInfo.touchableRegion =
          RegionOf(IF getSnapshotOfLayerId(st, touchCropId) # NullPtr
                   THEN cropBounds(st, touchCropId, displayInfo)
                   ELSE TransformRect(displayInfo.transform, snapshot.transformedBounds))]
  ELSE IF getSnapshotOfLayerId(st, touchCropId) # NullPtr
  THEN [snapshot EXCEPT !.inputInfo.touchableRegion =
          regionIntersect(@, cropBounds(st, touchCropId, displayInfo))]
  ELSE snapshot

\* CLONE, and the touchable region intersected with the bounds of the snapshot
\* of the cloned root, path.mirrorRootIds.back()
markClone(st, snapshot, path, displayInfo) ==
  IF ~isClone(path) THEN snapshot
  ELSE IF getSnapshotOfLayerId(st, path.mirrorRootIds[Len(path.mirrorRootIds)]) = NullPtr
  THEN addInputConfig(snapshot, "CLONE")
  ELSE [addInputConfig(snapshot, "CLONE") EXCEPT !.inputInfo.touchableRegion =
          regionIntersect(@, cropBounds(st, path.mirrorRootIds[Len(path.mirrorRootIds)],
                                        displayInfo))]

\* The layers of the model are no trusted overlays. st is the store the
\* member function looks the crop layer and the cloned root up in.
updateInput(st, snapshot, requested, parentSnapshot, displayInfo, noValidDisplay, path) ==
  IF ~requested.hasInputInfo
  THEN [snapshot EXCEPT !.inputInfo.inputConfig = {"NO_INPUT_CHANNEL"}]
  ELSE markClone(
         st,
         cropTouchableRegion(
           st,
           markSecure(
             handleDropInputMode(
               [snapshot EXCEPT
                  !.inputInfo =
                     \* LayerSnapshot::canReceiveInput of a snapshot without a
                     \* buffer: it is not hidden by policy
                     markTouchableAndVisible(
                       fillInputFrameInfo(snapshot.inputInfo, displayInfo.transform,
                                          snapshot),
                       noValidDisplay, ~isHiddenByPolicy(snapshot)),
                  !.dropInputMode =
                     mostRestrictive(requested.dropInputMode, parentSnapshot.dropInputMode)],
               parentSnapshot),
             displayInfo),
           requested.touchCropId, displayInfo),
         path, displayInfo)

\* "Always update flags and visibility": the head of updateSnapshot
updateFlags(snapshot, requested, parentSnapshot) ==
  LET parentChanges == parentSnapshot.changes \cap PropagatingChanges
  IN [snapshot EXCEPT
        !.changes = parentChanges \cup requested.changes,
        !.isHiddenByPolicyFromParent =
           parentSnapshot.isHiddenByPolicyFromParent \/ requested.hidden,
        !.contentDirty = requested.contentDirty]

\* the local forceUpdate of updateSnapshot, on the snapshot with its flags
forceUpdateOf(snapshot, args) ==
  args.forceUpdate \/ snapshot.changes \cap {"Visibility", "Created"} # {}

\* the block gated by BUFFER_CHANGES runs and evaluates
\* requested.bufferData->getPixelFormat() on bufferData that is null
readsAbsentBufferData(snapshot, args, requested, parentSnapshot) ==
  LET s1 == updateFlags(snapshot, requested, parentSnapshot)
  IN /\ ~s1.isHiddenByPolicyFromParent
     /\ forceUpdateOf(s1, args) \/ requested.bufferChanges
     /\ requested.dataspace = "BT2020_ITU_PQ"
     /\ requested.api = "NATIVE_WINDOW_API_MEDIA"
     /\ requested.bufferData = "null"

\* the group gated by AffectsChildren
updateAffectsChildren(snapshot, forceUpdate, requested, parentSnapshot) ==
  IF forceUpdate \/ "AffectsChildren" \in snapshot.changes
  THEN [snapshot EXCEPT
          !.alpha = (parentSnapshot.alpha * requested.alpha) \div 100,
          !.isSecure = parentSnapshot.isSecure \/ requested.secure,
          !.layerStack = IF requested.parentId # UNASSIGNED_LAYER_ID
                         THEN parentSnapshot.layerStack
                         ELSE requested.layerStack]
  ELSE snapshot

\* The group gated by BUFFER_CHANGES. The layers of this model have no
\* external texture and no sideband stream. args.nullRead is what the read
\* through a null bufferData gives when the call goes on: a pixel format that
\* is the HDR one ("hdr") or not.
updateBuffer(snapshot, forceUpdate, args, requested) ==
  IF forceUpdate \/ requested.bufferChanges
  THEN [snapshot EXCEPT !.isHdrY410 =
          /\ requested.dataspace = "BT2020_ITU_PQ"
          /\ requested.api = "NATIVE_WINDOW_API_MEDIA"
          /\ IF requested.bufferData = "null" THEN args.nullRead = "hdr"
             ELSE requested.bufferData = "HAL_PIXEL_FORMAT_RGBA_1010102"]
  ELSE snapshot

\* the group gated by Content
updateContent(snapshot, forceUpdate, requested) ==
  IF forceUpdate \/ "Content" \in snapshot.changes
  THEN [snapshot EXCEPT !.color = requested.color] ELSE snapshot

\* the group gated by Hierarchy and Geometry
updateGeometry(snapshot, forceUpdate, requested, parentSnapshot) ==
  IF forceUpdate \/ snapshot.changes \cap {"Hierarchy", "Geometry"} # {}
  THEN updateLayerBounds(snapshot, requested, parentSnapshot) ELSE snapshot

\* the group gated by Hierarchy, Geometry and Input
updateInputInfo(st, snapshot, forceUpdate, args, requested, parentSnapshot, path) ==
  IF forceUpdate \/ snapshot.changes \cap {"Hierarchy", "Geometry", "Input"} # {}
  THEN updateInput(st, snapshot, requested, parentSnapshot,
                   displayInfoOf(args.displays, snapshot.layerStack),
                   displaysOf(args.displays, snapshot.layerStack) = {}, path)
  ELSE snapshot

\* The whole preset is copied over the settings of the snapshot, its length
\* included, after the length was set from the request.
updateShadows(snapshot, requested, globalShadowSettings) ==
  [snapshot EXCEPT
     !.shadowRadius = requested.shadowRadius,
     !.shadowSettings =
        IF requested.shadowRadius > 0
        THEN [globalShadowSettings EXCEPT !.boundaries = snapshot.geomLayerBounds]
        ELSE [@ EXCEPT !.length = requested.shadowRadius]]

\* snapshot.layerMetadata: the parent's, merged with the layer's own
updateLayerMetadata(snapshot, args, requested, parentSnapshot) ==
  IF args.includeMetadata
  THEN [snapshot EXCEPT !.layerMetadata = parentSnapshot.layerMetadata \cup requested.metadata]
  ELSE snapshot

\* the computed properties at the end of updateSnapshot, after updateShadows;
\* the layers of the model have no blur region and no stretch effect
updateComputed(snapshot) ==
  [snapshot EXCEPT
     !.forceClientComposition = snapshot.isHdrY410 \/ snapshot.shadowSettings.length > 0,
     !.isVisible = getIsVisible(snapshot)]

\* updateSnapshot on a snapshot whose flags are set and that is not hidden
updateVisible(st, snapshot, forceUpdate, args, requested, parentSnapshot, path) ==
  updateComputed(
    updateLayerMetadata(
     updateShadows(
      updateInputInfo(
        st,
        updateGeometry(
          updateContent(
            updateBuffer(
              updateAffectsChildren(snapshot, forceUpdate, requested, parentSnapshot),
              forceUpdate, args, requested),
            forceUpdate, requested),
          forceUpdate, requested, parentSnapshot),
        forceUpdate, args, requested, parentSnapshot, path),
      requested, args.globalShadowSettings),
     args, requested, parentSnapshot))

\* an update that goes on after the hidden-by-policy test
updateHiddenToo(st, snapshot, args, requested, parentSnapshot, path) ==
  updateVisible(st, snapshot, forceUpdateOf(snapshot, args), args, requested,
                parentSnapshot, path)

updateWithFlags(st, snapshot, args, requested, parentSnapshot, path) ==
  IF snapshot.isHiddenByPolicyFromParent
  THEN [snapshot EXCEPT !.isVisible = FALSE]
  ELSE updateVisible(st, snapshot, forceUpdateOf(snapshot, args), args, requested,
                     parentSnapshot, path)

updateSnapshot(st, snapshot, args, requested, parentSnapshot, path) ==
  updateWithFlags(st, updateFlags(snapshot, requested, parentSnapshot), args, requested,
                  parentSnapshot, path)

\* the fault a call of updateSnapshot leaves: a read through a null
\* bufferData ends the call ("crash") or gives some pixel format
faultAfterUpdateSnapshot(st, snapshot, args, requested, parentSnapshot) ==
  IF readsAbsentBufferData(snapshot, args, requested, parentSnapshot)
  THEN (IF args.nullRead = "crash" THEN "crash" ELSE "corrupt")
  ELSE st.fault

RECURSIVE updateSnapshotsInHierarchy(_, _, _, _)
RECURSIVE walkChildren(_, _, _, _, _)

\* the loop over hierarchy.mChildren, from child edge number i on
walkChildren(st, args, path, edges, i) ==
  IF i > Len(edges) \/ st.fault = "crash" THEN st
  ELSE LET childPath == ScopedAddToTraversalPath(path, edges[i].id, edges[i].variant)
       IN walkChildren(updateSnapshotsInHierarchy(st, args, childPath, Key(path)),
                       args, path, edges, i + 1)

\* parentPtr names the parent's snapshot object (RootPtr: mRootSnapshot); it is
\* a reference, read when it is used
updateSnapshotsInHierarchy(st, args, path, parentKey) ==
  LET parentPtr == IF parentKey.id = UNASSIGNED_LAYER_ID THEN RootPtr ELSE parentKey
      layer == args.layers[path.id]
      st1 == getOrCreateSnapshot(st, path, layer)
      ptr == getSnapshot(st1, path)
      snapshot == st1.objs[ptr]
      parentSnapshot == IF parentPtr = RootPtr THEN st1.root ELSE st1.objs[parentPtr]
      updated ==
        IF isRelative(path)
        THEN updateRelativeState(snapshot, parentSnapshot,
                                 path.variant = "Relative", args)
        ELSE updateSnapshot(st1, IF isAttached(path) THEN resetRelativeState(snapshot)
                            ELSE snapshot,
                            args, layer, parentSnapshot, path)
      toUpdate == IF isAttached(path) THEN resetRelativeState(snapshot) ELSE snapshot
      st2 == [st1 EXCEPT
                !.objs[ptr] = updated,
                !.fault = IF isRelative(path) THEN @
                          ELSE faultAfterUpdateSnapshot(st1, toUpdate, args, layer,
                                                        parentSnapshot),
                !.touched = IF isRelative(path) THEN @ ELSE @ \cup {ptr},
                !.relTouched = IF isRelative(path) THEN @ \cup {ptr} ELSE @]
  IN IF st2.fault = "crash" THEN st2
     ELSE IF isHiddenByPolicy(updated)
        /\ updated.changes \cap {"Visibility", "Hierarchy"} = {}
     THEN st2
     ELSE walkChildren(st2, args, path, Children(args.layers, path.id), 1)

\* ---- sortSnapshotsByZ
\* The visitor lambda on one traversal path; acc is [st, z, descend]: z is the
\* local globalZ, descend the lambda's return value. oob chooses what an
\* iter_swap with a position outside the array does: "crash" (the call
\* faults there) or "corrupt" (slot newZ takes the foreign slot's content,
\* an invalid pointer, and the object it owned leaves the array).
sortVisit(acc, path, oob) ==
  LET st == acc.st
      ptr == getSnapshot(st, path)
      snapshot == st.objs[ptr]
      oldZ == snapshot.globalZ
      newZ == acc.z
      st1 == [st EXCEPT !.objs[ptr].globalZ = newZ]
      other == st1.snaps[newZ + 1]
      st2 == [st1 EXCEPT !.objs[other].globalZ = oldZ]
  IN IF ptr = NullPtr THEN [acc EXCEPT !.descend = FALSE]
     ELSE IF isHiddenByPolicy(snapshot) /\ "Visibility" \notin snapshot.changes
     THEN [acc EXCEPT !.descend = FALSE]
     ELSE IF ~snapshot.isVisible THEN [acc EXCEPT !.descend = TRUE]
     ELSE IF oldZ = newZ THEN [st |-> st1, z |-> newZ + 1, descend |-> TRUE]
     ELSE IF newZ >= Len(st.snaps) \/ other = InvalidPtr
     THEN [st |-> [st1 EXCEPT !.fault = "crash"], z |-> newZ + 1, descend |-> FALSE]
     ELSE IF oldZ >= Len(st.snaps)
     THEN IF oob = "crash"
          THEN [st |-> [st2 EXCEPT !.fault = "crash"], z |-> newZ + 1,
                descend |-> FALSE]
          ELSE [st |-> [st2 EXCEPT !.fault = "corrupt",
                                   !.snaps[newZ + 1] = InvalidPtr],
                z |-> newZ + 1, descend |-> TRUE]
     ELSE [st |-> [st2 EXCEPT !.snaps = SwapAt(st.snaps, oldZ + 1, newZ + 1)],
           z |-> newZ + 1, descend |-> TRUE]

RECURSIVE traverseInZOrder(_, _, _, _, _)
RECURSIVE traverseChildrenInZOrder(_, _, _, _, _, _)

traverseChildrenInZOrder(acc, L, path, edges, i, oob) ==
  IF i > Len(edges) \/ acc.st.fault = "crash" THEN acc
  ELSE traverseChildrenInZOrder(
         traverseInZOrder(acc, L,
                          ScopedAddToTraversalPath(path, edges[i].id, edges[i].variant),
                          oob, FALSE),
         L, path, edges, i + 1, oob)

\* LayerHierarchy::traverseInZOrder: a node, then its children in order; the
\* children of a node are skipped when the visitor returns false
traverseInZOrder(acc, L, path, oob, isRoot) ==
  LET visited == IF isRoot THEN [acc EXCEPT !.descend = TRUE]
                 ELSE sortVisit(acc, path, oob)
  IN IF ~visited.descend THEN visited
     ELSE traverseChildrenInZOrder(visited, L, path, Children(L, path.id), 1, oob)

RECURSIVE sortTail(_, _)
\* while (globalZ < mSnapshots.size())
sortTail(st, globalZ) ==
  IF globalZ >= Len(st.snaps) \/ st.fault = "crash" THEN st
  ELSE IF st.snaps[globalZ + 1] = InvalidPtr THEN [st EXCEPT !.fault = "crash"]
  ELSE sortTail([st EXCEPT !.objs[st.snaps[globalZ + 1]].globalZ = globalZ,
                           !.objs[st.snaps[globalZ + 1]].isVisible = FALSE],
                globalZ + 1)

sortSnapshotsByZ(st, args, oob) ==
  IF st.fault = "crash" THEN st
  ELSE IF ~args.forceUpdate /\ args.globalChanges \cap {"Hierarchy", "Visibility"} = {}
  THEN st
  ELSE LET acc == traverseInZOrder([st |-> st, z |-> 0, descend |-> TRUE],
                                   args.layers, ROOT, oob, TRUE)
       IN sortTail(acc.st, acc.z)

\* ---- the eviction loop of updateSnapshots
\* an erasure that forgets the key index
eraseAtKeepsKey(st, it) ==
  LET lastPos == Len(st.snaps)
      swapped == SwapAt(st.snaps, it + 1, lastPos)
  IN [st EXCEPT !.snaps = SubSeq(swapped, 1, lastPos - 1),
                !.objs = Remove(st.objs, swapped[lastPos]),
                !.evicted = @ \cup {swapped[lastPos]}]

\* mIdToSnapshot.erase(traversalPath); iter_swap(it, end() - 1); erase(end() - 1)
\* where it is the iterator's offset from begin()
eraseAt(st, it) ==
  LET traversalPath == st.objs[st.snaps[it + 1]].path
      lastPos == Len(st.snaps)
      swapped == SwapAt(st.snaps, it + 1, lastPos)
  IN [st EXCEPT !.ids = st.ids \ {Key(traversalPath)},
                !.snaps = SubSeq(swapped, 1, lastPos - 1),
                !.objs = Remove(st.objs, swapped[lastPos]),
                !.evicted = @ \cup {swapped[lastPos]}]

RECURSIVE evictLoop(_, _, _, _)
\* while (it < mSnapshots.end()); fuel bounds the iterations
evictLoop(st, destroyedLayerIds, it, fuel) ==
  IF ~(it < Len(st.snaps)) \/ st.fault = "crash" THEN st
  ELSE IF fuel = 0 THEN [st EXCEPT !.fault = "diverged"]
  ELSE IF st.snaps[it + 1] = InvalidPtr THEN [st EXCEPT !.fault = "crash"]
  ELSE IF st.objs[st.snaps[it + 1]].path.id \notin destroyedLayerIds
  THEN evictLoop(st, destroyedLayerIds, it + 1, fuel - 1)
  ELSE evictLoop(eraseAt(st, it), destroyedLayerIds, it, fuel - 1)

\* ---- tryFastUpdate
\* a clearing that forgets the content-dirty flag
clearFlagsKeepsDirty(snapshot) == [snapshot EXCEPT !.changes = {}]

\* snapshot->changes.clear(); snapshot->contentDirty = false;
clearFlags(snapshot) == [snapshot EXCEPT !.changes = {}, !.contentDirty = FALSE]

RECURSIVE clearChangeFlags(_, _)
\* for (auto& snapshot : mSnapshots) of the no-change branch, from offset i on
clearChangeFlags(st, i) ==
  IF i >= Len(st.snaps) THEN st
  ELSE clearChangeFlags([st EXCEPT !.objs[st.snaps[i + 1]] = clearFlags(@)], i + 1)

\* layersWithChanges: the ids of the layers whose changes hold Content
layersWithChanges(args) ==
  {l \in Alive(args.layers) : "Content" \in args.layers[l].changes}

RECURSIVE fastPathLoop(_, _, _)
\* for (auto& snapshot : mSnapshots) of the content branch, from offset i on
fastPathLoop(st, args, i) ==
  IF i >= Len(st.snaps) \/ st.fault = "crash" THEN st
  ELSE LET ptr == st.snaps[i + 1]
           cleared == clearFlags(st.objs[ptr])
           id == cleared.path.id
       IN fastPathLoop(
            IF id \in layersWithChanges(args)
            THEN [st EXCEPT
                    !.objs[ptr] = updateSnapshot(st, cleared, args, args.layers[id],
                                                 st.root, ROOT),
                    !.fault = faultAfterUpdateSnapshot(st, cleared, args, args.layers[id],
                                                       st.root),
                    !.touched = @ \cup {ptr}]
            ELSE [st EXCEPT !.objs[ptr] = cleared],
            args, i + 1)

\* a fast path taken whenever the summary holds Content
tryFastUpdateOnContent(st, args) ==
  IF args.forceUpdate THEN [taken |-> FALSE, kind |-> "full", st |-> st]
  ELSE IF args.globalChanges = {}
  THEN [taken |-> TRUE, kind |-> "empty", st |-> clearChangeFlags(st, 0)]
  ELSE IF "Content" \notin args.globalChanges
  THEN [taken |-> FALSE, kind |-> "full", st |-> st]
  ELSE [taken |-> TRUE, kind |-> "content", st |-> fastPathLoop(st, args, 0)]

\* returns [taken, kind, st]
tryFastUpdate(st, args) ==
  IF args.forceUpdate THEN [taken |-> FALSE, kind |-> "full", st |-> st]
  ELSE IF args.globalChanges = {}
  THEN [taken |-> TRUE, kind |-> "empty", st |-> clearChangeFlags(st, 0)]
  ELSE IF args.globalChanges # {"Content"}
  THEN [taken |-> FALSE, kind |-> "full", st |-> st]
  ELSE [taken |-> TRUE, kind |-> "content", st |-> fastPathLoop(st, args, 0)]

\* ---- updateSnapshots
evictDestroyed(st, args) ==
  IF args.destroyedLayers = {} \/ st.fault = "crash" THEN st
  ELSE evictLoop(st, args.destroyedLayers, 0, Len(st.snaps) + 1)

rootForWalk(st, args) ==
  LET r1 == IF args.forceUpdate \/ args.displayChanges
            THEN [st.root EXCEPT !.geomLayerBounds = getMaxDisplayBounds(args.displays)]
            ELSE st.root
  IN IF args.displayChanges
     THEN [r1 EXCEPT !.changes = {"AffectsChildren", "Geometry"}]
     ELSE r1

\* the root recomputation and the loop over args.root.mChildren
walkRoot(st, args) ==
  walkChildren([st EXCEPT !.root = rootForWalk(st, args)], args, ROOT,
               Children(args.layers, UNASSIGNED_LAYER_ID), 1)

updateSnapshots(st, args, oob) ==
  LET st2 == walkRoot(st, args)
      st3 == sortSnapshotsByZ(st2, args, oob)
      st4 == IF st3.fault = "crash" THEN st3 ELSE [st3 EXCEPT !.root.changes = {}]
  IN evictDestroyed(st4, args)

\* LayerSnapshotBuilder::update; returns [kind, st]
update(st, args, oob) ==
  LET fast == tryFastUpdate(st, args)
  IN IF fast.taken THEN [kind |-> fast.kind, st |-> fast.st]
     ELSE [kind |-> "full", st |-> updateSnapshots(st, args, oob)]

\* ------------------------------------------------ the layers and displays
\* (LayerLifecycleManager, LayerHierarchyBuilder and the display registry)
\* No transaction of the model sets touchCropId: the touchable region of a
\* snapshot of the store is empty, whatever it is cropped to.
Unborn ==
  [life |-> "unborn", parentId |-> UNASSIGNED_LAYER_ID,
   relativeParentId |-> UNASSIGNED_LAYER_ID, layerIdToMirror |-> UNASSIGNED_LAYER_ID,
   hidden |-> FALSE, color |-> 1, changes |-> {}, contentDirty |-> FALSE,
   transform |-> IdentityTransform,
   dataspace |-> "UNKNOWN", api |-> "NATIVE_WINDOW_API_EGL", bufferData |-> "null",
   bufferChanges |-> FALSE,
   alpha |-> 100, secure |-> FALSE, layerStack |-> DEFAULT_LAYER_STACK,
   hasInputInfo |-> FALSE, dropInputMode |-> "NONE", shadowRadius |-> 0,
   metadata |-> {}, touchCropId |-> UNASSIGNED_LAYER_ID]

NewLayer(parentId, mirror, hidden) ==
  [Unborn EXCEPT !.life = "alive", !.parentId = parentId, !.layerIdToMirror = mirror,
                 !.hidden = hidden, !.changes = {"Created"}]

DisplayA == [layerStack |-> 0, logicalWidth |-> 1, logicalHeight |-> 2,
             isSecure |-> FALSE, transform |-> IdentityTransform]
DisplayConfigs ==
  {{}, {DisplayA, [layerStack |-> 1, logicalWidth |-> 2, logicalHeight |-> 1,
                   isSecure |-> FALSE, transform |-> IdentityTransform]}}

\* A layer hangs from a layer of smaller id; a mirror layer is a root layer
\* that mirrors a layer of smaller id and is never reparented: no cycles.
ParentChoices(L, l) ==
  IF L[l].layerIdToMirror # UNASSIGNED_LAYER_ID THEN {UNASSIGNED_LAYER_ID}
  ELSE {UNASSIGNED_LAYER_ID} \cup {p \in Alive(L) : p < l}

\* the layers some alive layer hangs from or mirrors
Referenced(L) ==
  {L[x].parentId : x \in Alive(L)} \cup {L[x].relativeParentId : x \in Alive(L)}
  \cup {L[x].layerIdToMirror : x \in Alive(L)}

\* the trees update() is first called on
InitLayers ==
  {[l \in LayerIds |->
      IF l = 1 THEN NewLayer(UNASSIGNED_LAYER_ID, UNASSIGNED_LAYER_ID, FALSE)
      ELSE IF l = 2 THEN NewLayer(p2, UNASSIGNED_LAYER_ID, FALSE)
      ELSE l3] :
     p2 \in {UNASSIGNED_LAYER_ID, 1},
     l3 \in {Unborn, NewLayer(UNASSIGNED_LAYER_ID, UNASSIGNED_LAYER_ID, FALSE),
             NewLayer(2, UNASSIGNED_LAYER_ID, FALSE),
             NewLayer(UNASSIGNED_LAYER_ID, 1, FALSE)}}

NoUpdate ==
  [kind |-> "none", force |-> FALSE, touched |-> {}, relTouched |-> {}, evicted |-> {}]

NoCall == [fn |-> "none"]

Init ==
  /\ layers \in InitLayers
  /\ destroyedLayers = {}
  /\ globalChanges = IF Alive(layers) = {} THEN {}
                     ELSE {"Created", "Hierarchy"}
  /\ displays = {}
  /\ displayChanges = FALSE
  /\ mSnapshots = <<>>
  /\ heap = <<>>
  /\ mIdToSnapshot = {}
  /\ mRootSnapshot = getRootSnapshot
  /\ phase = "txn"
  /\ fault = "none"
  /\ last = NoUpdate
  /\ budget = MaxMutations
  /\ call = NoCall

builder == <<mSnapshots, heap, mIdToSnapshot, mRootSnapshot, fault, last, call>>

CanMutate == phase = "txn" /\ fault = "none" /\ budget > 0

\* a transaction flips eLayerHidden
SetHidden(l) ==
  /\ CanMutate /\ l \in Alive(layers)
  /\ layers' = [layers EXCEPT ![l].hidden = ~@, ![l].changes = @ \cup {"Visibility"}]
  /\ globalChanges' = globalChanges \cup {"Visibility"}
  /\ budget' = budget - 1
  /\ UNCHANGED <<destroyedLayers, displays, displayChanges, phase, builder>>

\* a transaction changes the layer's color
SetColor(l, c) ==
  /\ CanMutate /\ l \in Alive(layers) /\ c # layers[l].color
  /\ layers' = [layers EXCEPT ![l].color = c, ![l].changes = @ \cup {"Content"},
                              ![l].contentDirty = TRUE]
  /\ globalChanges' = globalChanges \cup {"Content"}
  /\ budget' = budget - 1
  /\ UNCHANGED <<destroyedLayers, displays, displayChanges, phase, builder>>

\* a transaction reparents the layer
Reparent(l, p) ==
  /\ CanMutate /\ l \in Alive(layers)
  /\ p \in ParentChoices(layers, l) /\ p # layers[l].parentId
  /\ layers' = [layers EXCEPT ![l].parentId = p, ![l].changes = @ \cup {"Hierarchy"}]
  /\ globalChanges' = globalChanges \cup {"Hierarchy"}
  /\ budget' = budget - 1
  /\ UNCHANGED <<destroyedLayers, displays, displayChanges, phase, builder>>

\* a transaction sets or clears the layer's relative parent
SetRelativeParent(l, r) ==
  /\ CanMutate /\ l \in Alive(layers)
  /\ r \in ParentChoices(layers, l) /\ r # layers[l].relativeParentId
  /\ layers' = [layers EXCEPT ![l].relativeParentId = r,
                              ![l].changes = @ \cup {"Hierarchy"}]
  /\ globalChanges' = globalChanges \cup {"Hierarchy"}
  /\ budget' = budget - 1
  /\ UNCHANGED <<destroyedLayers, displays, displayChanges, phase, builder>>

CreateLayer(l, p, m, h) ==
  /\ CanMutate /\ layers[l].life = "unborn"
  /\ m \in {UNASSIGNED_LAYER_ID} \cup {t \in Alive(layers) : t < l}
  /\ p \in ParentChoices([layers EXCEPT ![l].layerIdToMirror = m], l)
  /\ layers' = [layers EXCEPT ![l] = NewLayer(p, m, h)]
  /\ globalChanges' = globalChanges \cup {"Created", "Hierarchy"}
  /\ budget' = budget - 1
  /\ UNCHANGED <<destroyedLayers, displays, displayChanges, phase, builder>>

\* the handle of a layer nothing hangs from is released
DestroyLayer(l) ==
  /\ CanMutate /\ l \in Alive(layers) /\ l \notin Referenced(layers)
  /\ layers' = [layers EXCEPT ![l].life = "destroyed"]
  /\ destroyedLayers' = destroyedLayers \cup {l}
  /\ globalChanges' = globalChanges \cup {"Hierarchy"}
  /\ budget' = budget - 1
  /\ UNCHANGED <<displays, displayChanges, phase, builder>>

SetDisplays(ds) ==
  /\ CanMutate /\ ds # displays
  /\ displays' = ds
  /\ displayChanges' = TRUE
  /\ budget' = budget - 1
  /\ UNCHANGED <<layers, destroyedLayers, globalChanges, phase, builder>>

\* LayerLifecycleManager::commitChanges, and the caller's reset of its
\* displays-changed flag, after update() returned
CommitChanges ==
  /\ phase = "updated" /\ fault = "none"
  /\ layers' = [l \in LayerIds |-> [layers[l] EXCEPT !.changes = {},
                                                     !.contentDirty = FALSE,
                                                     !.bufferChanges = FALSE]]
  /\ destroyedLayers' = {}
  /\ globalChanges' = {}
  /\ displayChanges' = FALSE
  /\ phase' = "txn"
  /\ last' = NoUpdate
  /\ UNCHANGED <<displays, budget, mSnapshots, heap, mIdToSnapshot, mRootSnapshot, fault,
               call>>

\* ------------------------------------------------------------- update()
Store == [snaps |-> mSnapshots, objs |-> heap, ids |-> mIdToSnapshot,
          root |-> mRootSnapshot, fault |-> "none", touched |-> {},
          relTouched |-> {}, evicted |-> {}]

ArgsOf(force) ==
  [forceUpdate |-> force, displayChanges |-> displayChanges, displays |-> displays,
   layers |-> layers, globalChanges |-> globalChanges,
   destroyedLayers |-> destroyedLayers, nullRead |-> "crash",
   globalShadowSettings |-> DefaultShadowSettings, includeMetadata |-> FALSE]

\* LayerSnapshotBuilder::update(args). The outcome oob of a slot addressed
\* outside the array matters only when an object's stored index is outside
\* it; the outcome n of a pixel format read through a null bufferData only
\* when the HDR detection of some layer makes that read; the length g of the
\* global shadow preset only when a layer casts a shadow; Args::includeMetadata
\* (i) only when a layer has metadata.
Update(force, oob) ==
  /\ phase = "txn" /\ fault = "none"
  /\ oob = "corrupt" => (\E k \in DOMAIN heap : heap[k].globalZ >= Len(mSnapshots))
  /\ \E r \in {update(Store, [ArgsOf(force) EXCEPT
                                   !.nullRead = n,
                                   !.globalShadowSettings.length = g,
                                   !.includeMetadata = i], oob) :
                  n \in IF \E l \in Alive(layers) :
                             layers[l].dataspace = "BT2020_ITU_PQ"
                             /\ layers[l].api = "NATIVE_WINDOW_API_MEDIA"
                             /\ layers[l].bufferData = "null"
                        THEN {"crash", "hdr", "other"} ELSE {"crash"},
                  g \in IF \E l \in Alive(layers) : layers[l].shadowRadius > 0
                        THEN {0, 3, 5} ELSE {0},
                  i \in IF \E l \in Alive(layers) : layers[l].metadata # {}
                        THEN BOOLEAN ELSE {FALSE}} :
        /\ mSnapshots' = r.st.snaps
        /\ heap' = r.st.objs
        /\ mIdToSnapshot' = r.st.ids
        /\ mRootSnapshot' = r.st.root
        /\ fault' = r.st.fault
        /\ phase' = IF r.st.fault \in {"crash", "diverged"} THEN "crashed" ELSE "updated"
        /\ last' = [kind |-> r.kind, force |-> force, touched |-> r.st.touched,
                    relTouched |-> r.st.relTouched, evicted |-> r.st.evicted]
  /\ UNCHANGED <<layers, destroyedLayers, globalChanges, displays, displayChanges, budget,
               call>>

Next ==
  \/ \E l \in LayerIds : SetHidden(l)
  \/ \E l \in LayerIds, c \in {1, 2} : SetColor(l, c)
  \/ \E l \in LayerIds, p \in {UNASSIGNED_LAYER_ID} \cup LayerIds : Reparent(l, p)
  \/ \E l \in LayerIds, r \in {UNASSIGNED_LAYER_ID} \cup LayerIds : SetRelativeParent(l, r)
  \/ \E l \in LayerIds, p \in {UNASSIGNED_LAYER_ID} \cup LayerIds,
        m \in {UNASSIGNED_LAYER_ID} \cup LayerIds, h \in BOOLEAN : CreateLayer(l, p, m, h)
  \/ \E l \in LayerIds : DestroyLayer(l)
  \/ \E ds \in DisplayConfigs : SetDisplays(ds)
  \/ CommitChanges
  \/ \E force \in BOOLEAN, oob \in {"crash", "corrupt"} : Update(force, oob)

Spec == Init /\ [][Next]_vars

\* ---- trees with relative links: layer 3 is z-ordered relative to layer 2
\* when update() is first called, and transactions hide, reparent and relink
InitRelative ==
  /\ layers \in
       {[l \in LayerIds |->
           IF l = 3
           THEN [NewLayer(UNASSIGNED_LAYER_ID, UNASSIGNED_LAYER_ID, FALSE) EXCEPT
                   !.relativeParentId = 2]
           ELSE NewLayer(UNASSIGNED_LAYER_ID, UNASSIGNED_LAYER_ID, FALSE)]}
  /\ destroyedLayers = {}
  /\ globalChanges = {"Created", "Hierarchy"}
  /\ displays = {}
  /\ displayChanges = FALSE
  /\ mSnapshots = <<>>
  /\ heap = <<>>
  /\ mIdToSnapshot = {}
  /\ mRootSnapshot = getRootSnapshot
  /\ phase = "txn"
  /\ fault = "none"
  /\ last = NoUpdate
  /\ budget = MaxMutations + 1
  /\ call = NoCall

NextRelative ==
  \/ \E l \in LayerIds : SetHidden(l)
  \/ \E l \in LayerIds, p \in {UNASSIGNED_LAYER_ID} \cup LayerIds : Reparent(l, p)
  \/ \E l \in LayerIds, r \in {UNASSIGNED_LAYER_ID} \cup LayerIds : SetRelativeParent(l, r)
  \/ CommitChanges
  \/ \E force \in BOOLEAN, oob \in {"crash", "corrupt"} : Update(force, oob)

SpecRelative == InitRelative /\ [][NextRelative]_vars

\* ---- trees with relative links and metadata: when update() is first called
\* layer 3 is z-ordered relative to layer 2, or layer 2 is z-ordered relative
\* to layer 1 and layer 3 is its child. Layer l has the metadata key l.
InitMetadata ==
  /\ layers \in
       {[l \in LayerIds |->
           [NewLayer(IF l = 3 /\ ~first THEN 2 ELSE UNASSIGNED_LAYER_ID,
                     UNASSIGNED_LAYER_ID, FALSE)
              EXCEPT !.relativeParentId = IF l = 3 /\ first THEN 2
                                          ELSE IF l = 2 /\ ~first THEN 1
                                          ELSE UNASSIGNED_LAYER_ID,
                     !.metadata = {l}]] :
          first \in BOOLEAN}
  /\ destroyedLayers = {}
  /\ globalChanges = {"Created", "Hierarchy"}
  /\ displays = {}
  /\ displayChanges = FALSE
  /\ mSnapshots = <<>>
  /\ heap = <<>>
  /\ mIdToSnapshot = {}
  /\ mRootSnapshot = getRootSnapshot
  /\ phase = "txn"
  /\ fault = "none"
  /\ last = NoUpdate
  /\ budget = MaxMutations
  /\ call = NoCall

SpecMetadata == InitMetadata /\ [][NextRelative]_vars

\* ---- a chain of three layers whose requested transforms change
\* a rotation by a quarter turn
Rotate90 == [IdentityTransform EXCEPT !.dsdx = 0, !.dtdx = 0 - 1, !.dtdy = 1, !.dsdy = 0]

InitGeometry ==
  /\ layers \in
       {[l \in LayerIds |->
           [NewLayer(l - 1, UNASSIGNED_LAYER_ID, FALSE) EXCEPT !.transform = t[l]]] :
          t \in [LayerIds -> {IdentityTransform, Translate(10, 0)}]}
  /\ destroyedLayers = {}
  /\ globalChanges = {"Created", "Hierarchy"}
  /\ displays = {}
  /\ displayChanges = FALSE
  /\ mSnapshots = <<>>
  /\ heap = <<>>
  /\ mIdToSnapshot = {}
  /\ mRootSnapshot = getRootSnapshot
  /\ phase = "txn"
  /\ fault = "none"
  /\ last = NoUpdate
  /\ budget = MaxMutations
  /\ call = NoCall

\* a transaction sets the layer's matrix and position
SetTransform(l, t) ==
  /\ CanMutate /\ l \in Alive(layers) /\ t # layers[l].transform
  /\ layers' = [layers EXCEPT ![l].transform = t, ![l].changes = @ \cup {"Geometry"}]
  /\ globalChanges' = globalChanges \cup {"Geometry"}
  /\ budget' = budget - 1
  /\ UNCHANGED <<destroyedLayers, displays, displayChanges, phase, builder>>

NextGeometry ==
  \/ \E l \in LayerIds,
        t \in {IdentityTransform, Translate(10, 0), Rotate90, ScaleZero,
               NonFiniteTransform} : SetTransform(l, t)
  \/ \E l \in LayerIds : SetHidden(l)
  \/ CommitChanges
  \/ \E force \in BOOLEAN, oob \in {"crash", "corrupt"} : Update(force, oob)

SpecGeometry == InitGeometry /\ [][NextGeometry]_vars

\* ---- a tree whose buffer data, dataspace and api change
InitBuffer ==
  /\ layers = [l \in LayerIds |-> NewLayer(l - 1, UNASSIGNED_LAYER_ID, FALSE)]
  /\ destroyedLayers = {}
  /\ globalChanges = {"Created", "Hierarchy"}
  /\ displays = {}
  /\ displayChanges = FALSE
  /\ mSnapshots = <<>>
  /\ heap = <<>>
  /\ mIdToSnapshot = {}
  /\ mRootSnapshot = getRootSnapshot
  /\ phase = "txn"
  /\ fault = "none"
  /\ last = NoUpdate
  /\ budget = MaxMutations
  /\ call = NoCall

\* a transaction that touches one of the BUFFER_CHANGES fields
BufferTransaction(l, field, value) ==
  /\ CanMutate /\ l \in Alive(layers) /\ value # layers[l][field]
  /\ layers' = [layers EXCEPT ![l][field] = value,
                              ![l].changes = @ \cup {"Buffer", "Content"},
                              ![l].bufferChanges = TRUE]
  /\ globalChanges' = globalChanges \cup {"Buffer", "Content"}
  /\ budget' = budget - 1
  /\ UNCHANGED <<destroyedLayers, displays, displayChanges, phase, builder>>

\* a transaction sets the shadow radius of the layer
SetShadowRadius(l, radius) ==
  /\ CanMutate /\ l \in Alive(layers) /\ radius # layers[l].shadowRadius
  /\ layers' = [layers EXCEPT ![l].shadowRadius = radius,
                              ![l].changes = @ \cup {"Content"}]
  /\ globalChanges' = globalChanges \cup {"Content"}
  /\ budget' = budget - 1
  /\ UNCHANGED <<destroyedLayers, displays, displayChanges, phase, builder>>

NextBuffer ==
  \/ \E l \in LayerIds, radius \in {0, 5} : SetShadowRadius(l, radius)
  \/ \E l \in LayerIds,
        b \in {"HAL_PIXEL_FORMAT_RGBA_1010102", "HAL_PIXEL_FORMAT_RGBA_8888", "null"} :
        BufferTransaction(l, "bufferData", b)
  \/ \E l \in LayerIds, d \in {"UNKNOWN", "BT2020_ITU_PQ"}  :
        BufferTransaction(l, "dataspace", d)
  \/ \E l \in LayerIds, a \in {"NATIVE_WINDOW_API_EGL", "NATIVE_WINDOW_API_MEDIA"} :
        BufferTransaction(l, "api", a)
  \/ \E l \in LayerIds : SetHidden(l)
  \/ CommitChanges
  \/ \E force \in BOOLEAN, oob \in {"crash", "corrupt"} : Update(force, oob)

SpecBuffer == InitBuffer /\ [][NextBuffer]_vars

\* ---- a tree whose secure flags, input information, drop-input modes and
\* alphas change, on one display that is secure, is not, or is missing
SecureDisplay == [DisplayA EXCEPT !.isSecure = TRUE]

\* layer 2 is a child of layer 1 and has input information
InitInput ==
  /\ layers \in
       {[l \in LayerIds |->
           IF l = 3 THEN Unborn
           ELSE [NewLayer(l - 1, UNASSIGNED_LAYER_ID, FALSE) EXCEPT
                   !.hasInputInfo = (l = 1 => first)]] :
          first \in BOOLEAN}
  /\ destroyedLayers = {}
  /\ globalChanges = {"Created", "Hierarchy"}
  /\ displays \in {{DisplayA}, {SecureDisplay}}
  /\ displayChanges = TRUE
  /\ mSnapshots = <<>>
  /\ heap = <<>>
  /\ mIdToSnapshot = {}
  /\ mRootSnapshot = getRootSnapshot
  /\ phase = "txn"
  /\ fault = "none"
  /\ last = NoUpdate
  /\ budget = MaxMutations
  /\ call = NoCall

\* a transaction flips eLayerSecure, or sets the alpha: one of AFFECTS_CHILDREN
AffectsChildrenTransaction(l, field, value) ==
  /\ CanMutate /\ l \in Alive(layers) /\ value # layers[l][field]
  /\ layers' = [layers EXCEPT ![l][field] = value,
                              ![l].changes = @ \cup {"AffectsChildren"}]
  /\ globalChanges' = globalChanges \cup {"AffectsChildren"}
  /\ budget' = budget - 1
  /\ UNCHANGED <<destroyedLayers, displays, displayChanges, phase, builder>>

\* a transaction sets or drops the window info, or sets the drop-input mode
InputTransaction(l, field, value) ==
  /\ CanMutate /\ l \in Alive(layers) /\ value # layers[l][field]
  /\ layers' = [layers EXCEPT ![l][field] = value, ![l].changes = @ \cup {"Input"}]
  /\ globalChanges' = globalChanges \cup {"Input"}
  /\ budget' = budget - 1
  /\ UNCHANGED <<destroyedLayers, displays, displayChanges, phase, builder>>

NextInput ==
  \/ \E l \in LayerIds, secure \in BOOLEAN : AffectsChildrenTransaction(l, "secure", secure)
  \/ \E l \in LayerIds, alpha \in {50, 100} : AffectsChildrenTransaction(l, "alpha", alpha)
  \/ \E l \in LayerIds, has \in BOOLEAN : InputTransaction(l, "hasInputInfo", has)
  \/ \E l \in LayerIds, mode \in {"NONE", "OBSCURED", "ALL"}  :
        InputTransaction(l, "dropInputMode", mode)
  \/ \E ds \in {{}, {DisplayA}, {SecureDisplay}} : SetDisplays(ds)
  \/ \E l \in LayerIds : SetHidden(l)
  \/ CommitChanges
  \/ \E force \in BOOLEAN, oob \in {"crash", "corrupt"} : Update(force, oob)

SpecInput == InitInput /\ [][NextInput]_vars

\* ---- a chain of three layers: layer 1 is a root, layer 2 its child and
\* layer 3, a window, the child of layer 2; layers 1 and 2 are windows or not
InitDropChain ==
  /\ layers \in
       {[l \in LayerIds |->
           [NewLayer(l - 1, UNASSIGNED_LAYER_ID, FALSE) EXCEPT
              !.hasInputInfo = (l = 3 \/ l \in windows)]] :
          windows \in SUBSET {1, 2}}
  /\ destroyedLayers = {}
  /\ globalChanges = {"Created", "Hierarchy"}
  /\ displays = {DisplayA}
  /\ displayChanges = TRUE
  /\ mSnapshots = <<>>
  /\ heap = <<>>
  /\ mIdToSnapshot = {}
  /\ mRootSnapshot = getRootSnapshot
  /\ phase = "txn"
  /\ fault = "none"
  /\ last = NoUpdate
  /\ budget = MaxMutations
  /\ call = NoCall

SpecDropChain == InitDropChain /\ [][NextInput]_vars

\* ---- transformTouchableRegionSafely called on a region and a translation
\* the largest float below 2^31
MaxFloatOffset == INT32_MAX - 127

Offsets == {0, 5, 0 - 5, MaxFloatOffset, 0 - MaxFloatOffset}

MaxRegionRects == 2

\* the builder as constructed, over a tree with no layer
InitIdle ==
  /\ layers = [l \in LayerIds |-> Unborn]
  /\ destroyedLayers = {}
  /\ globalChanges = {}
  /\ displays = {}
  /\ displayChanges = FALSE
  /\ mSnapshots = <<>>
  /\ heap = <<>>
  /\ mIdToSnapshot = {}
  /\ mRootSnapshot = getRootSnapshot
  /\ phase = "txn"
  /\ fault = "none"
  /\ last = NoUpdate
  /\ budget = 0

idle ==
  <<layers, destroyedLayers, globalChanges, displays, displayChanges,
    mSnapshots, heap, mIdToSnapshot, mRootSnapshot, phase, fault, last, budget>>

InitRegion ==
  /\ InitIdle
  /\ call \in [fn : {"transformTouchableRegionSafely"}, done : {FALSE},
               t : {Translate(x, y) : x \in Offsets, y \in Offsets},
               r : {s \in SUBSET {[left |-> 0, top |-> 0, right |-> 100, bottom |-> 10],
                                  [left |-> 0, top |-> 0, right |-> 200, bottom |-> 300],
                                  [left |-> 0 - 200, top |-> 0 - 200, right |-> 0 - 100,
                                   bottom |-> 0 - 100],
                                  [left |-> INT32_MAX - 10, top |-> INT32_MIN,
                                   right |-> INT32_MAX, bottom |-> INT32_MIN + 3]} :
                      Cardinality(s) <= MaxRegionRects},
               ret : {{}}]

CallTransformTouchableRegionSafely ==
  /\ call.fn = "transformTouchableRegionSafely" /\ ~call.done
  /\ call' = [call EXCEPT !.done = TRUE,
                          !.ret = transformTouchableRegionSafely(call.t, call.r)]
  /\ UNCHANGED idle

NextRegion == CallTransformTouchableRegionSafely

SpecRegion == InitRegion /\ [][NextRegion]_vars

\* ---- updateRoundedCorner called on a layer crop, a corner radius, a local
\* transform and the rounded corners of the parent snapshot
InitRoundedCorner ==
  /\ InitIdle
  /\ call \in [fn : {"updateRoundedCorner"}, done : {FALSE},
               snapshot : [localTransform : {IdentityTransform, Translate(10, 0), ScaleZero},
                           croppedBufferSize :
                             {[left |-> 0, top |-> 0, right |-> 100, bottom |-> 100],
                              [left |-> 20, top |-> 20, right |-> 80, bottom |-> 80],
                              [left |-> 0, top |-> 0, right |-> 0, bottom |-> 0]},
                           roundedCorner : {NoRoundedCorner}],
               requested : [cornerRadius : {0, 3}],
               parentSnapshot :
                 [roundedCorner :
                    {NoRoundedCorner}
                    \cup {[cropRect |-> toFloatRect(r),
                           radius |-> [x |-> 5, y |-> 5, finite |-> TRUE]] :
                            r \in {[left |-> 10, top |-> 10, right |-> 90, bottom |-> 90],
                                   [left |-> 0, top |-> 10, right |-> 90, bottom |-> 90],
                                   [left |-> 10, top |-> 10, right |-> 90, bottom |-> 100],
                                   [left |-> 0 - 10, top |-> 0 - 10, right |-> 110,
                                    bottom |-> 110]}}]]

CallUpdateRoundedCorner ==
  /\ call.fn = "updateRoundedCorner" /\ ~call.done
  /\ call' = [call EXCEPT !.done = TRUE,
                          !.snapshot = updateRoundedCorner(call.snapshot, call.requested,
                                                           call.parentSnapshot)]
  /\ UNCHANGED idle

NextRoundedCorner == CallUpdateRoundedCorner

SpecRoundedCorner == InitRoundedCorner /\ [][NextRoundedCorner]_vars

\* ---- fillInputFrameInfo called on a snapshot and a display transform
FrameTransforms == {IdentityTransform, Translate(10, 0), Rotate90}

ScreenTransforms == {IdentityTransform, Translate(4, 6)}

\* a snapshot as updateLayerBounds leaves it: its absolute transform is its
\* parent's composed with its local transform
FrameSnapshots ==
  {[externalTexture |-> e, croppedBufferSize |-> c, localTransform |-> l,
    parentTransform |-> p, geomLayerTransform |-> Compose(p, l),
    geomLayerBounds |-> getMaxDisplayBounds({})] :
     e \in BOOLEAN,
     c \in {InvalidRect,
            [left |-> 0, top |-> 0, right |-> 100, bottom |-> 60, finite |-> TRUE]},
     l \in FrameTransforms, p \in FrameTransforms}

InitInputFrame ==
  /\ InitIdle
  /\ call \in [fn : {"fillInputFrameInfo"}, done : {FALSE},
               info : {[DefaultWindowInfo EXCEPT !.surfaceInset = i] : i \in {0, 10, 40}},
               screenToDisplay : ScreenTransforms,
               snapshot : FrameSnapshots]

CallFillInputFrameInfo ==
  /\ call.fn = "fillInputFrameInfo" /\ ~call.done
  /\ call' = [call EXCEPT !.done = TRUE,
                          !.info = fillInputFrameInfo(call.info, call.screenToDisplay,
                                                      call.snapshot)]
  /\ UNCHANGED idle

NextInputFrame == CallFillInputFrameInfo

SpecInputFrame == InitInputFrame /\ [][NextInputFrame]_vars

\* ---- the crops of updateInput called on a snapshot and a store
TouchableRegions == {{}, {[left |-> 0, top |-> 0, right |-> 100, bottom |-> 100]}}

\* the layers the store may hold a snapshot of, and the bounds of each
CropTargets == {2, 3}

\* a store that holds the snapshots of the layers present, each reached
\* without a mirror root
CropStore(present) ==
  [ids |-> {[id |-> l, mirrorRootIds |-> <<>>] : l \in present},
   objs |-> [k \in {[id |-> l, mirrorRootIds |-> <<>>] : l \in present} |->
               [transformedBounds |->
                  [left |-> 10 * k.id, top |-> 10 * k.id, right |-> 40 * k.id,
                   bottom |-> 40 * k.id, finite |-> TRUE]]]]

InitTouchCrop ==
  /\ InitIdle
  /\ call \in [fn : {"updateInput"}, done : {FALSE}, cropped : {FALSE},
               snapshot :
                 {[inputInfo |-> [DefaultWindowInfo EXCEPT
                                    !.touchableRegion = r,
                                    !.replaceTouchableRegionWithCrop = b],
                   transformedBounds |->
                     [left |-> 5, top |-> 5, right |-> 50, bottom |-> 30, finite |-> TRUE]] :
                    r \in TouchableRegions, b \in BOOLEAN},
               touchCropId : {UNASSIGNED_LAYER_ID} \cup CropTargets,
               path : {[id |-> 1, mirrorRootIds |-> m] : m \in {<<>>, <<2>>, <<3>>}},
               present : SUBSET CropTargets,
               displayInfo : {[isSecure |-> FALSE, transform |-> s] : s \in ScreenTransforms}]

\* auto cropLayerSnapshot = getSnapshot(requested.touchCropId) and the crop
CallCropTouchableRegion ==
  /\ call.fn = "updateInput" /\ ~call.cropped
  /\ call' = [call EXCEPT
                !.cropped = TRUE,
                !.snapshot = cropTouchableRegion(CropStore(call.present), call.snapshot,
                                                 call.touchCropId, call.displayInfo)]
  /\ UNCHANGED idle

\* if (path.isClone()) and the crop to the cloned root
CallMarkClone ==
  /\ call.fn = "updateInput" /\ call.cropped /\ ~call.done
  /\ call' = [call EXCEPT
                !.done = TRUE,
                !.snapshot = markClone(CropStore(call.present), call.snapshot, call.path,
                                       call.displayInfo)]
  /\ UNCHANGED idle

NextTouchCrop == CallCropTouchableRegion \/ CallMarkClone

SpecTouchCrop == InitTouchCrop /\ [][NextTouchCrop]_vars

\* ---- fillInputFrameInfo called by two forced updates in a row
\* the input descriptor a snapshot carries from one update to the next
InitInputTwice ==
  /\ InitIdle
  /\ call \in [fn : {"forcedUpdateInput"}, calls : {0}, before : {DefaultWindowInfo},
               info : {[DefaultWindowInfo EXCEPT !.surfaceInset = i,
                                                 !.touchableRegion = r] :
                         i \in {0, 10}, r \in TouchableRegions},
               screenToDisplay : ScreenTransforms,
               snapshot : FrameSnapshots]

\* updateInput of a forced update, on the snapshot the last update left: the
\* geometry of the snapshot is what it was, its inputInfo is what the last
\* call wrote
CallFillInputFrameInfoAgain ==
  /\ call.fn = "forcedUpdateInput" /\ call.calls < 2
  /\ call' = [call EXCEPT !.calls = @ + 1,
                          !.before = call.info,
                          !.info = fillInputFrameInfo(call.info, call.screenToDisplay,
                                                      call.snapshot)]
  /\ UNCHANGED idle

NextInputTwice == CallFillInputFrameInfoAgain

SpecInputTwice == InitInputTwice /\ [][NextInputTwice]_vars

\* ----------------------------------------------------------- properties
\* the fields a walk resolves, without the bookkeeping (path, change bits,
\* content-dirty, stored index)
Resolved(snapshot) ==
  [isHiddenByPolicyFromParent |-> snapshot.isHiddenByPolicyFromParent,
   isHiddenByPolicyFromRelativeParent |-> snapshot.isHiddenByPolicyFromRelativeParent,
   isVisible |-> snapshot.isVisible,
   color |-> snapshot.color,
   geomLayerBounds |-> snapshot.geomLayerBounds]

\* an update() call that returned, from the state it was called in
Returned(kind) == phase = "txn" /\ phase' = "updated" /\ last'.kind = kind

\* what a forced full walk of the tree as it stands leaves in the store
ForcedWalk == updateSnapshots(Store, ArgsOf(TRUE), "crash")

\* C1: when update() takes the content fast path (the summary is exactly
\* Content, the outputs did not change), every snapshot ends with the
\* resolved fields a forced full walk of the same tree would give it.
C1_ContentFastPathEquivalence ==
  [][(Returned("content") /\ ~displayChanges /\ ForcedWalk.fault = "none")
       => \A k \in DOMAIN heap' :
             /\ k \in DOMAIN ForcedWalk.objs
             /\ Resolved(heap'[k]) = Resolved(ForcedWalk.objs[k])]_vars

\* the key of the tree parent of the occurrence with key k: the mirroring
\* layer for the root of a mirrored subtree, the attach parent otherwise
ParentKey(k) ==
  IF k.mirrorRootIds # <<>>
     /\ layers[k.mirrorRootIds[Len(k.mirrorRootIds)]].layerIdToMirror = k.id
  THEN [id |-> k.mirrorRootIds[Len(k.mirrorRootIds)],
        mirrorRootIds |-> SubSeq(k.mirrorRootIds, 1, Len(k.mirrorRootIds) - 1)]
  ELSE [id |-> layers[k.id].parentId, mirrorRootIds |-> k.mirrorRootIds]

HasParentSnapshot(k) ==
  ParentKey(k).id = UNASSIGNED_LAYER_ID \/ ParentKey(k) \in DOMAIN heap

ParentSnapshotOf(k) ==
  IF ParentKey(k).id = UNASSIGNED_LAYER_ID THEN mRootSnapshot ELSE heap[ParentKey(k)]

\* C2: whichever path update() took, a snapshot it recomputed whose own
\* layer is hidden, or whose tree parent's snapshot is hidden by policy, is
\* hidden by policy from its parent and not visible.
C2_HiddenInheritedOnEveryPath ==
  phase = "updated" =>
    \A k \in last.touched \cap DOMAIN heap :
      (/\ layers[k.id].relativeParentId = UNASSIGNED_LAYER_ID
       /\ HasParentSnapshot(k)
       /\ layers[k.id].hidden \/ ParentSnapshotOf(k).isHiddenByPolicyFromParent)
      => heap[k].isHiddenByPolicyFromParent /\ ~heap[k].isVisible

\* C3: an unforced update() on an empty summary leaves the array, the key
\* index, the root snapshot and every snapshot's resolved fields and stored
\* index as they were, leaves every snapshot with no change bit and not
\* content-dirty, and a second such call changes nothing more.
C3_EmptyFastPath ==
  [][(phase = "txn" /\ phase' # "txn" /\ globalChanges = {}
      /\ Update(FALSE, "crash"))
       => /\ phase' = "updated" /\ last'.kind = "empty"
          /\ mSnapshots' = mSnapshots
          /\ mIdToSnapshot' = mIdToSnapshot
          /\ mRootSnapshot' = mRootSnapshot
          /\ DOMAIN heap' = DOMAIN heap
          /\ \A k \in DOMAIN heap : heap'[k] = [heap[k] EXCEPT !.changes = {}, !.contentDirty = FALSE]
          /\ \A i \in 1..Len(mSnapshots') :
                /\ heap'[mSnapshots'[i]].changes = {}
                /\ ~heap'[mSnapshots'[i]].contentDirty
          /\ update(Store', ArgsOf(FALSE), "crash").st = Store']_vars

\* the empty fast path ran over a store of several snapshots, one of them
\* of a hidden layer
C3_Witness ==
  /\ phase = "updated" /\ last.kind = "empty"
  /\ Len(mSnapshots) >= 2
  /\ \E l \in Alive(layers) : layers[l].hidden

\* ---- the z-order pass
RECURSIVE VisibleVisited(_, _, _)
RECURSIVE VisibleVisitedBelow(_, _, _, _, _)

VisibleVisitedBelow(st, L, path, edges, i) ==
  IF i > Len(edges) THEN <<>>
  ELSE VisibleVisited(st, L, ScopedAddToTraversalPath(path, edges[i].id,
                                                      edges[i].variant))
       \o VisibleVisitedBelow(st, L, path, edges, i + 1)

\* the keys of the visible snapshots the z-order traversal of the subtree at
\* path visits, in traversal order: a node with no snapshot, or hidden by
\* policy with no Visibility change, is skipped with its subtree
VisibleVisited(st, L, path) ==
  IF Key(path) \notin st.ids THEN <<>>
  ELSE IF isHiddenByPolicy(st.objs[Key(path)])
          /\ "Visibility" \notin st.objs[Key(path)].changes THEN <<>>
  ELSE (IF st.objs[Key(path)].isVisible THEN <<Key(path)>> ELSE <<>>)
       \o VisibleVisitedBelow(st, L, path, Children(L, path.id), 1)

TraversalOrder(st, L) ==
  VisibleVisitedBelow(st, L, ROOT, Children(L, UNASSIGNED_LAYER_ID), 1)

\* walked is the store the pass ran on, sorted the store it left
ZOrderPost(walked, sorted, L) ==
  LET order == TraversalOrder(walked, L)
  IN /\ sorted.fault = "none"
     /\ Len(order) <= Len(sorted.snaps)
     /\ SubSeq(sorted.snaps, 1, Len(order)) = order
     /\ \A i \in 1..Len(sorted.snaps) :
           /\ sorted.snaps[i] \in DOMAIN sorted.objs
           /\ sorted.objs[sorted.snaps[i]].globalZ = i - 1
           /\ i > Len(order) => ~sorted.objs[sorted.snaps[i]].isVisible

SortRuns(args) ==
  /\ ~tryFastUpdate(Store, args).taken
  /\ args.forceUpdate \/ args.globalChanges \cap {"Hierarchy", "Visibility"} # {}

\* C4: right after any z-order pass the array is a prefix holding exactly the
\* visible snapshots the traversal visited, in traversal order, followed by
\* not-visible snapshots, and every snapshot's index is its array position.
C4_ZOrderPostcondition ==
  (phase = "txn" /\ fault = "none") =>
    \A force \in BOOLEAN, oob \in {"crash", "corrupt"} :
      SortRuns(ArgsOf(force)) =>
        ZOrderPost(walkRoot(Store, ArgsOf(force)),
                   sortSnapshotsByZ(walkRoot(Store, ArgsOf(force)), ArgsOf(force), oob),
                   layers)

\* the arguments of the update after commitChanges, with nothing changed since
CommittedArgs(force) ==
  [ArgsOf(force) EXCEPT
     !.layers = [l \in LayerIds |-> [layers[l] EXCEPT !.changes = {},
                                                      !.contentDirty = FALSE,
                                                      !.bufferChanges = FALSE]],
     !.globalChanges = {}, !.destroyedLayers = {}, !.displayChanges = FALSE]

SameOrder(a, b) ==
  /\ a.snaps = b.snaps
  /\ \A k \in DOMAIN a.objs :
        k \in DOMAIN b.objs /\ a.objs[k].globalZ = b.objs[k].globalZ

\* C5: a forced update, then a second forced update with no layer changed
\* in between: the second leaves every snapshot at the array position and
\* with the index the first gave it.
C5_ZOrderDeterminism ==
  (phase = "txn" /\ fault = "none") =>
    LET first == updateSnapshots(Store, ArgsOf(TRUE), "crash")
    IN first.fault = "none" =>
         \A oob \in {"crash", "corrupt"} :
           LET second == updateSnapshots(first, CommittedArgs(TRUE), oob)
           IN second.fault = "none" /\ SameOrder(first, second)

VisibleKeys(st) == {k \in DOMAIN st.objs : st.objs[k].isVisible}

\* the arguments of the update after a transaction hid layer l
HideArgs(l) ==
  [ArgsOf(FALSE) EXCEPT
     !.layers = [layers EXCEPT ![l].hidden = TRUE,
                               ![l].changes = @ \cup {"Visibility"}],
     !.globalChanges = @ \cup {"Visibility"}]

\* layer l has one occurrence in the tree and nothing below it, and the
\* tree has no relative link
SingleLeaf(l) ==
  /\ l \notin Referenced(layers)
  /\ layers[l].layerIdToMirror = UNASSIGNED_LAYER_ID
  /\ \A x \in Alive(layers) : layers[x].relativeParentId = UNASSIGNED_LAYER_ID
  /\ {k \in DOMAIN heap : k.id = l} = {[id |-> l, mirrorRootIds |-> <<>>]}

\* C6: hiding one visible layer (one with a single occurrence and nothing
\* below it, in a tree of attached and mirror edges) and updating again leaves one visible snapshot fewer, and the
\* visible snapshots hold the indices 0..k-1, each once.
C6_HideDecrementsAndCompacts ==
  (phase = "txn" /\ fault = "none" /\ globalChanges = {} /\ destroyedLayers = {}
   /\ ~displayChanges) =>
    \A l \in Alive(layers), oob \in {"crash", "corrupt"} :
      (/\ SingleLeaf(l) /\ ~layers[l].hidden
       /\ heap[[id |-> l, mirrorRootIds |-> <<>>]].isVisible)
      => LET st == update(Store, HideArgs(l), oob).st
             k == Cardinality(VisibleKeys(st))
         IN /\ st.fault = "none"
            /\ k = Cardinality(VisibleKeys(Store)) - 1
            /\ {st.objs[v].globalZ : v \in VisibleKeys(st)} = 0..(k - 1)

\* the array before the eviction of an update() called in this state
BeforeEviction ==
  sortSnapshotsByZ(walkRoot(Store, ArgsOf(TRUE)), ArgsOf(TRUE), "crash").snaps

Occurrences(s, x) == Cardinality({i \in 1..Len(s) : s[i] = x})

C8_StoreConsistency ==
  phase \in {"txn", "updated"} =>
    /\ \A i \in 1..Len(mSnapshots) :
          /\ mSnapshots[i] \in DOMAIN heap
          /\ Key(heap[mSnapshots[i]].path) = mSnapshots[i]
          /\ mSnapshots[i] \in mIdToSnapshot
    /\ \A k \in mIdToSnapshot : Occurrences(mSnapshots, k) = 1
    /\ \A l \in Alive(layers), m \in {<<>>, <<3>>} :
          LET path == [ROOT EXCEPT !.id = l, !.mirrorRootIds = m]
              st == getOrCreateSnapshot(Store, path, layers[l])
          IN IF Key(path) \in mIdToSnapshot
             THEN st = Store
             ELSE /\ st.snaps = Append(mSnapshots, Key(path))
                  /\ st.ids = mIdToSnapshot \cup {Key(path)}
                  /\ st.objs[Key(path)].globalZ = Len(mSnapshots)

\* the key of the occurrence of the relative parent that the occurrence
\* with key k hangs from
RelativeTarget(k) ==
  [id |-> layers[k.id].relativeParentId, mirrorRootIds |-> k.mirrorRootIds]

\* C9: after a full walk, a snapshot the walk reached over a Relative edge
\* is hidden by policy from its relative parent exactly when the snapshot of
\* that relative parent is hidden by policy, from its own parent or from its
\* own relative parent.
C9_RelativeEdgeInheritance ==
  (phase = "updated" /\ last.kind = "full") =>
    \A k \in last.relTouched \cap DOMAIN heap :
      (/\ layers[k.id].relativeParentId # UNASSIGNED_LAYER_ID
       /\ RelativeTarget(k) \in DOMAIN heap)
      => heap[k].isHiddenByPolicyFromRelativeParent
           = isHiddenByPolicy(heap[RelativeTarget(k)])

\* C10: an update() called with changed outputs leaves the root snapshot
\* with the bounds of the current outputs, and every snapshot it recomputed
\* carries the Geometry and AffectsChildren bits, whatever the summary is.
C10_RootRecomputedOnOutputChange ==
  (phase = "updated" /\ displayChanges) =>
    /\ mRootSnapshot.geomLayerBounds = getMaxDisplayBounds(displays)
    /\ \A k \in last.touched \cap DOMAIN heap :
          {"Geometry", "AffectsChildren"} \subseteq heap[k].changes

\* ---- the region transform
\* the sum of two int32_t values is an int32_t value
Fits(a, b) == IF b >= 0 THEN a <= INT32_MAX - b ELSE a >= INT32_MIN - b

RectFits(rect, tx, ty) ==
  /\ Fits(rect.left, tx) /\ Fits(rect.top, ty)
  /\ Fits(rect.right, tx) /\ Fits(rect.bottom, ty)

Translated(rect, tx, ty) ==
  [left |-> rect.left + tx, top |-> rect.top + ty,
   right |-> rect.right + tx, bottom |-> rect.bottom + ty]

\* C11: the region returned for a region and a 32-bit translation (tx, ty)
\* holds the translated rectangle of exactly those rectangles for which none
\* of left+tx, top+ty, right+tx, bottom+ty leaves the signed 32-bit range;
\* the call returns for every input.
C11_OverflowSafeRegionTransform ==
  (call.fn = "transformTouchableRegionSafely" /\ call.done) =>
    LET tx == roundTranslation(call.t.tx)
        ty == roundTranslation(call.t.ty)
    IN call.ret = {Translated(rect, tx, ty) :
                     rect \in {x \in call.r : RectFits(x, tx, ty)}}

\* a call on a region of two rectangles dropped one and kept the other
C11_Witness ==
  /\ call.fn = "transformTouchableRegionSafely" /\ call.done
  /\ Cardinality(call.r) = 2 /\ Cardinality(call.ret) = 1
  /\ \E rect \in call.r :
        ~Fits(rect.right, roundTranslation(call.t.tx)) /\ Fits(rect.left, roundTranslation(call.t.tx))

\* ---- rounded corners
\* the parent's rounded corners in the layer's space
Reprojected(rc, localTransform) ==
  LET t == Inverse(localTransform)
  IN [cropRect |-> TransformRect(t, rc.cropRect),
      radius |-> IF t.finite
                 THEN [x |-> rc.radius.x * getScaleX(t), y |-> rc.radius.y * getScaleY(t),
                       finite |-> TRUE]
                 ELSE [x |-> 0, y |-> 0, finite |-> FALSE]]

OwnCorners(snapshot, requested) ==
  [cropRect |-> toFloatRect(snapshot.croppedBufferSize),
   radius |-> [x |-> requested.cornerRadius, y |-> requested.cornerRadius, finite |-> TRUE]]

\* C12: with valid corner settings of the layer (a positive radius on a
\* crop that is not empty) and of the parent (a positive radius once
\* reprojected), the snapshot takes the parent's reprojected state exactly
\* when the four edges of the parent's rectangle are strictly inside the
\* layer's crop, and the layer's own state otherwise; with one valid side
\* it takes that side, with none it has no rounded corners.
C12_RoundedCornerTieBreak ==
  (call.fn = "updateRoundedCorner" /\ call.done) =>
    LET own == OwnCorners(call.snapshot, call.requested)
        parent == Reprojected(call.parentSnapshot.roundedCorner, call.snapshot.localTransform)
        ownValid == call.requested.cornerRadius > 0
                    /\ own.cropRect.left < own.cropRect.right
                    /\ own.cropRect.top < own.cropRect.bottom
        parentValid == /\ call.parentSnapshot.roundedCorner.radius.x > 0
                       /\ call.parentSnapshot.roundedCorner.radius.y > 0
                       /\ parent.radius.finite /\ parent.radius.x > 0 /\ parent.radius.y > 0
        inside == /\ parent.cropRect.left > own.cropRect.left
                  /\ parent.cropRect.top > own.cropRect.top
                  /\ parent.cropRect.right < own.cropRect.right
                  /\ parent.cropRect.bottom < own.cropRect.bottom
        got == call.snapshot.roundedCorner
    IN /\ (ownValid /\ parentValid /\ inside) => got = parent
       /\ (ownValid /\ parentValid /\ ~inside) => got = own
       /\ (ownValid /\ ~parentValid) => got = own
       /\ (~ownValid /\ parentValid) => got = parent
       /\ (~ownValid /\ ~parentValid) => ~hasRoundedCorners(got)

\* both sides were valid and the parent's reprojected rectangle touched an
\* edge of the layer's crop from inside: the layer's own state won
C12_Witness ==
  /\ call.fn = "updateRoundedCorner" /\ call.done
  /\ call.requested.cornerRadius > 0
  /\ hasRoundedCorners(call.parentSnapshot.roundedCorner)
  /\ call.snapshot.localTransform = Translate(10, 0)
  /\ LET parent == Reprojected(call.parentSnapshot.roundedCorner,
                               call.snapshot.localTransform)
         crop == toFloatRect(call.snapshot.croppedBufferSize)
     IN /\ parent.cropRect.left = crop.left
        /\ parent.cropRect.top > crop.top
        /\ parent.cropRect.right < crop.right
        /\ parent.cropRect.bottom < crop.bottom
  /\ call.snapshot.roundedCorner = OwnCorners(call.snapshot, call.requested)

\* ---- the absolute transform
\* updateSnapshot, run on a snapshot that ends with these change bits in
\* an update() called with this force flag, recomputes the geometry
GeometryRecomputed(snapshot, force) ==
  /\ ~snapshot.isHiddenByPolicyFromParent
  /\ force \/ snapshot.changes \cap {"Visibility", "Created", "Hierarchy", "Geometry"} # {}

\* C13: a snapshot whose geometry an update() recomputed holds the
\* composition (absolute transform of its tree parent's snapshot) o (its
\* layer's local transform) when that composition can be inverted and is
\* finite, and the identity otherwise; what it holds is valid, its stored
\* inverse is the inverse of what it holds, and the transform of its parent
\* it composed from is the parent's stored (reset) one.
C13_AbsoluteTransform ==
  [][\A force \in BOOLEAN :
       (phase = "txn" /\ Update(force, "crash") /\ phase' = "updated")
       => \A k \in last'.touched \cap DOMAIN heap' :
            (GeometryRecomputed(heap'[k], force) /\ HasParentSnapshot(k)')
            => LET parent == ParentSnapshotOf(k)'
                   composed == Compose(parent.geomLayerTransform, layers[k.id].transform)
                   got == heap'[k]
               IN /\ got.geomLayerTransform =
                       IF composed.finite /\ Det(composed) # 0 THEN composed
                       ELSE IdentityTransform
                  /\ got.geomLayerTransform.finite /\ Det(got.geomLayerTransform) # 0
                  /\ Compose(got.geomLayerTransform, got.geomInverseLayerTransform)
                       = IdentityTransform
                  /\ Compose(got.geomInverseLayerTransform, got.geomLayerTransform)
                       = IdentityTransform
                  /\ got.parentTransform = parent.geomLayerTransform]_vars

\* layer 1 is translated, layer 2 below it has a transform that cannot be
\* inverted and was reset, and layer 3 below it is rotated: its absolute
\* transform is its own rotation, composed from the identity
C13_Witness ==
  /\ phase = "updated" /\ last.kind = "full"
  /\ {[id |-> l, mirrorRootIds |-> <<>>] : l \in LayerIds} \subseteq last.touched
  /\ layers[1].transform = Translate(10, 0)
  /\ layers[2].transform = ScaleZero
  /\ layers[3].transform = Rotate90
  /\ heap[[id |-> 2, mirrorRootIds |-> <<>>]].invalidTransform
  /\ heap[[id |-> 2, mirrorRootIds |-> <<>>]].geomLayerTransform = IdentityTransform
  /\ heap[[id |-> 3, mirrorRootIds |-> <<>>]].geomLayerTransform = Rotate90
  /\ ~heap[[id |-> 3, mirrorRootIds |-> <<>>]].invalidTransform

\* layer 1 is translated and layer 2 below it rotated: the absolute
\* transform of layer 2 is translation o rotation, not rotation o translation
C13_OrderWitness ==
  /\ phase = "updated" /\ last.kind = "full"
  /\ layers[1].transform = Translate(10, 0)
  /\ layers[2].transform = Rotate90
  /\ heap[[id |-> 2, mirrorRootIds |-> <<>>]].geomLayerTransform
       = Compose(Translate(10, 0), Rotate90)
  /\ Compose(Translate(10, 0), Rotate90) # Compose(Rotate90, Translate(10, 0))

\* C14: no update pass aborts: whatever the tree, the store and the
\* descriptor fields (a descriptor without buffer data whose dataspace and
\* api match the HDR detection among them), update() runs to completion
\* without a fault.
C14_NoUpdateAborts == phase # "crashed" /\ fault = "none"

\* ---- secure content and drop-input
\* C15: after an update() call, every visible snapshot of a layer that has
\* input information, whose resolved secure flag is set and whose display is
\* not secure or not registered, has DROP_INPUT set.
C15_SecureContentDropsInput ==
  (phase = "updated" /\ fault = "none")
  => \A k \in mIdToSnapshot \cap DOMAIN heap :
        (/\ heap[k].isVisible
         /\ layers[k.id].hasInputInfo
         /\ heap[k].isSecure
         /\ ~displayInfoOf(displays, heap[k].layerStack).isSecure)
        => "DROP_INPUT" \in heap[k].inputInfo.inputConfig

\* ---- the drop-input mode
\* updateSnapshot, run on a snapshot that ends with these change bits in an
\* update() called with this force flag, calls updateInput
InputRecomputed(snapshot, force) ==
  /\ ~snapshot.isHiddenByPolicyFromParent
  /\ force \/ snapshot.changes
               \cap {"Visibility", "Created", "Hierarchy", "Geometry", "Input"} # {}

\* C16: a snapshot whose input an update() recomputed holds, as its
\* drop-input mode, the most restrictive of its layer's mode and its parent
\* snapshot's mode (ALL over OBSCURED over NONE); when that mode is ALL and the
\* layer has input information DROP_INPUT is set; when the layer has none, no
\* drop-input flag is set.
C16_DropInputMode ==
  [][\A force \in BOOLEAN :
       (phase = "txn" /\ Update(force, "crash") /\ phase' = "updated")
       => \A k \in last'.touched \cap DOMAIN heap' :
            (InputRecomputed(heap'[k], force) /\ HasParentSnapshot(k)')
            => LET effective == mostRestrictive(layers[k.id].dropInputMode,
                                                ParentSnapshotOf(k)'.dropInputMode)
                   config == heap'[k].inputInfo.inputConfig
               IN /\ heap'[k].dropInputMode = effective
                  /\ (effective = "ALL" /\ layers[k.id].hasInputInfo)
                       => "DROP_INPUT" \in config
                  /\ ~layers[k.id].hasInputInfo
                       => config \cap {"DROP_INPUT", "DROP_INPUT_IF_OBSCURED"} = {}]_vars

\* ---- the transform used for input
\* the bounds the frame is computed from, with the inset taken off
InsetBounds(snapshot, surfaceInset) ==
  LET b == IF ~snapshot.externalTexture \/ snapshot.localTransform = IdentityTransform
              \/ ~RectIsValid(snapshot.croppedBufferSize)
           THEN snapshot.croppedBufferSize
           ELSE TransformRect(snapshot.localTransform, snapshot.croppedBufferSize)
      v == IF RectIsValid(b) THEN b ELSE EmptyRect
      x == Min(surfaceInset, (v.right - v.left) \div 2)
      y == Min(surfaceInset, (v.bottom - v.top) \div 2)
  IN [left |-> v.left + x, top |-> v.top + y, right |-> v.right - x, bottom |-> v.bottom - y,
      finite |-> TRUE]

\* the window info fillInputFrameInfo leaves when layerToScreen is the
\* transform used for input: the frame is the inset bounds, inside the
\* layer's bounds, taken to the display, and the transform takes a point of
\* the display back to the layer and then to the origin of the inset bounds
UsesInputTransform(layerToScreen) ==
  LET inset == InsetBounds(call.snapshot, call.info.surfaceInset)
      layerToDisplay == Compose(call.screenToDisplay, layerToScreen)
  IN /\ call.info.frame =
          TransformRect(layerToDisplay, RectIntersect(call.snapshot.geomLayerBounds, inset))
     /\ Compose(call.info.transform, layerToDisplay)
          = Translate(0 - inset.left, 0 - inset.top)

\* C17 as stated: the transform used for input is the parent's absolute
\* transform when the node has a buffer, else the node's local transform.
C17_LocalInputTransform ==
  (call.fn = "fillInputFrameInfo" /\ call.done)
  => UsesInputTransform(IF call.snapshot.externalTexture
                        THEN call.snapshot.parentTransform
                        ELSE call.snapshot.localTransform)

\* C17 amended: the transform used for input is the parent's absolute
\* transform when the node has a buffer, else the node's own absolute
\* transform (its parent's composed with its local one).
C17_AbsoluteInputTransform ==
  (call.fn = "fillInputFrameInfo" /\ call.done)
  => UsesInputTransform(IF call.snapshot.externalTexture
                        THEN call.snapshot.parentTransform
                        ELSE call.snapshot.geomLayerTransform)

\* a node without a buffer, turned under a parent that is translated, with a
\* valid crop and an inset: its input transform is neither its local nor its
\* parent's transform
C17_Witness ==
  /\ call.fn = "fillInputFrameInfo" /\ call.done
  /\ ~call.snapshot.externalTexture
  /\ call.snapshot.parentTransform = Translate(10, 0)
  /\ call.snapshot.localTransform = Rotate90
  /\ RectIsValid(call.snapshot.croppedBufferSize)
  /\ call.info.surfaceInset = 10
  /\ call.screenToDisplay = Translate(4, 6)
  /\ ~RectIsEmpty(call.info.frame)

\* ---- the path update() takes
\* the array, the key index, the set of snapshot objects, every stored index
\* and the root snapshot are what they were: nothing was created, evicted,
\* reordered or walked
StructureKept ==
  /\ mSnapshots' = mSnapshots
  /\ mIdToSnapshot' = mIdToSnapshot
  /\ DOMAIN heap' = DOMAIN heap
  /\ \A k \in DOMAIN heap : heap'[k].globalZ = heap[k].globalZ
  /\ mRootSnapshot' = mRootSnapshot
  /\ last'.evicted = {} /\ last'.relTouched = {}

\* the snapshots of the array whose layer has a Content change
ContentChanged ==
  {mSnapshots[i] : i \in 1..Len(mSnapshots)}
    \cap {k \in DOMAIN heap : "Content" \in layers[k.id].changes}

\* what a full pass that returned leaves: a snapshot for every layer that
\* hangs from the root, none for a destroyed layer
FullPassRan ==
  /\ \A l \in Alive(layers) :
        (layers[l].parentId = UNASSIGNED_LAYER_ID
         /\ layers[l].relativeParentId = UNASSIGNED_LAYER_ID)
        => [id |-> l, mirrorRootIds |-> <<>>] \in mIdToSnapshot'
  /\ \A i \in 1..Len(mSnapshots') : mSnapshots'[i].id \notin destroyedLayers
  /\ \A k \in mIdToSnapshot' : k.id \notin destroyedLayers

\* C18: update() takes the empty fast path iff it is not forced and the
\* summary is empty, the content fast path iff it is not forced and the
\* summary is exactly {Content}, and the full pass (walk, z-order pass,
\* eviction) in every other case; on the two fast paths there is no descent,
\* no z-order pass, no creation and no eviction.
C18_PathSelection ==
  [][\A force \in BOOLEAN, oob \in {"crash", "corrupt"} :
       (phase = "txn" /\ Update(force, oob))
       => LET kind == IF ~force /\ globalChanges = {} THEN "empty"
                      ELSE IF ~force /\ globalChanges = {"Content"} THEN "content"
                      ELSE "full"
          IN /\ last'.kind = kind
             /\ kind = "empty" => StructureKept /\ last'.touched = {}
             /\ kind = "content" => StructureKept /\ last'.touched = ContentChanged
             /\ (kind = "full" /\ fault' = "none") => FullPassRan]_vars

\* a content fast path that recomputed a snapshot and cleared another
C18_Witness ==
  /\ phase = "updated" /\ fault = "none"
  /\ last.kind = "content" /\ last.touched # {}
  /\ \E k \in mIdToSnapshot : k \notin last.touched

\* an unforced full pass on a summary that holds Content with another flag
C18_MixedWitness ==
  /\ phase = "updated" /\ fault = "none"
  /\ last.kind = "full" /\ "Content" \in globalChanges
  /\ globalChanges # {"Content"} /\ "Created" \notin globalChanges

\* ---- pruning
\* the layers that hang below layer l by attached edges
RECURSIVE AttachedBelow(_, _)
AttachedBelow(l, fuel) ==
  IF fuel = 0 THEN {}
  ELSE LET direct == {c \in Alive(layers) :
                        /\ layers[c].parentId = l
                        /\ layers[c].relativeParentId = UNASSIGNED_LAYER_ID}
       IN direct \cup UNION {AttachedBelow(c, fuel - 1) : c \in direct}

\* the walk updated this snapshot and did not descend into its children
Pruned(snapshot) ==
  /\ snapshot.isHiddenByPolicyFromParent \/ snapshot.isHiddenByPolicyFromRelativeParent
  /\ snapshot.changes \cap {"Visibility", "Hierarchy"} = {}

\* C19: in a full walk the children of a node are skipped only if the node
\* is hidden by policy and neither it nor a layer of its subtree has a
\* Hierarchy or Visibility change; no snapshot of the subtree of a pruned node
\* is then updated by the walk.
C19_Pruning ==
  [][\A force \in BOOLEAN :
       (phase = "txn" /\ Update(force, "crash") /\ phase' = "updated"
        /\ last'.kind = "full")
       => \A k \in last'.touched \cap DOMAIN heap' :
            Pruned(heap'[k])
            => \A c \in AttachedBelow(k.id, 3) :
                 /\ layers[c].changes \cap {"Visibility", "Hierarchy"} = {}
                 /\ [id |-> c, mirrorRootIds |-> k.mirrorRootIds] \notin last'.touched]_vars

\* ---- the change mask
\* the change bits of the parent snapshot a snapshot was updated from in the
\* update() that just returned: the root snapshot carries the stamp of an
\* outputs change during a full walk, and nothing on a fast path
ParentChangesSeen(k) ==
  IF ParentKey(k).id # UNASSIGNED_LAYER_ID THEN heap'[ParentKey(k)].changes
  ELSE IF last'.kind = "full" /\ displayChanges THEN {"Geometry", "AffectsChildren"}
  ELSE {}

\* C20: after updateSnapshot ran on a snapshot, its change bits are those
\* of its parent snapshot among Hierarchy, Geometry, Visibility, Metadata and
\* AffectsChildren, united with its layer's own bits: Content, Input, Buffer
\* and Created of the parent are not inherited; the stamp Geometry and
\* AffectsChildren of the root snapshot is gone when update() returns, so the
\* next update does not see it.
C20_ChangeMask ==
  [][\A force \in BOOLEAN :
       (phase = "txn" /\ Update(force, "crash") /\ phase' = "updated")
       => /\ mRootSnapshot.changes = {} /\ mRootSnapshot'.changes = {}
          /\ \A k \in last'.touched \cap DOMAIN heap' :
               HasParentSnapshot(k)'
               => /\ heap'[k].changes =
                       (ParentChangesSeen(k)
                          \cap {"Hierarchy", "Geometry", "Visibility", "Metadata",
                                "AffectsChildren"})
                       \cup layers[k.id].changes
                  /\ \A c \in {"Content", "Input", "Buffer", "Created"} :
                       c \in heap'[k].changes => c \in layers[k.id].changes]_vars

\* a full walk after an outputs change: a root layer carries the stamp
\* that its own bits do not hold, and below a parent whose bits hold Created
\* or Content there is a child that did not inherit them
C20_Witness ==
  /\ phase = "updated" /\ fault = "none" /\ last.kind = "full" /\ displayChanges
  /\ mRootSnapshot.changes = {}
  /\ \E k \in last.touched \cap DOMAIN heap :
        /\ ParentKey(k).id = UNASSIGNED_LAYER_ID
        /\ layers[k.id].changes \cap {"Geometry", "AffectsChildren"} = {}
        /\ {"Geometry", "AffectsChildren"} \subseteq heap[k].changes
  /\ \E k \in last.touched \cap DOMAIN heap :
        /\ ParentKey(k) \in last.touched \cap DOMAIN heap
        /\ heap[ParentKey(k)].changes \cap {"Content", "Created"} # {}
        /\ heap[k].changes \cap {"Content", "Created"} = {}

\* ---- hidden nodes
\* the fields updateSnapshot resolves after its hidden-by-policy test (the
\* groups of lines 548-641), without isVisible
Frozen(snapshot) ==
  [f \in {"color", "geomLayerBounds", "localTransform", "parentTransform",
          "geomLayerTransform", "geomInverseLayerTransform", "invalidTransform",
          "isHdrY410", "externalTexture", "croppedBufferSize", "transformedBounds",
          "alpha", "isSecure", "layerStack", "dropInputMode", "inputInfo",
          "shadowRadius", "shadowSettings", "forceClientComposition"} |-> snapshot[f]]

\* C21: a snapshot that updateSnapshot resolved as hidden by policy from its
\* parent is not visible and keeps every other resolved field (geometry,
\* alpha, secure flag, layer stack, buffer fields, input descriptor, drop-input
\* mode, shadow) at the value it had before the update() call, the values of
\* a new snapshot when the call created it, also when the call was forced.
C21_HiddenNodeFrozen ==
  [][\A force \in BOOLEAN :
       (phase = "txn" /\ Update(force, "crash") /\ phase' = "updated")
       => \A k \in last'.touched \cap DOMAIN heap' :
            heap'[k].isHiddenByPolicyFromParent
            => /\ ~heap'[k].isVisible
               /\ Frozen(heap'[k]) =
                    Frozen(IF k \in DOMAIN heap THEN heap[k]
                           ELSE NewSnapshot(layers[k.id], heap'[k].path))]_vars

\* a forced update() ran updateSnapshot on a hidden snapshot of an earlier
\* update whose layer is secure by now: the snapshot still is not
C21_Witness ==
  /\ phase = "updated" /\ fault = "none" /\ last.kind = "full" /\ last.force
  /\ \E k \in last.touched \cap DOMAIN heap :
        /\ heap[k].isHiddenByPolicyFromParent /\ "Created" \notin heap[k].changes
        /\ layers[k.id].secure /\ ~heap[k].isSecure

\* ---- shadows
\* C25: after update(), every snapshot that updateSnapshot ran on and that
\* is not hidden by policy from its parent has the shadow radius and the
\* shadow length of its layer's requested shadow radius, and forces client
\* composition when that radius is greater than zero, whatever the length of
\* the global shadow preset.
C25_ShadowResolution ==
  (phase = "updated" /\ fault = "none")
  => \A k \in last.touched \cap DOMAIN heap :
        ~heap[k].isHiddenByPolicyFromParent
        => /\ heap[k].shadowRadius = layers[k.id].shadowRadius
           /\ heap[k].shadowSettings.length = layers[k.id].shadowRadius
           /\ layers[k.id].shadowRadius > 0 => heap[k].forceClientComposition

\* ---- attached and relative occurrences
\* the tree reaches the occurrence with key k over an Attached edge
AttachedEdge(k) ==
  /\ layers[k.id].relativeParentId = UNASSIGNED_LAYER_ID
  /\ ParentKey(k).mirrorRootIds = k.mirrorRootIds

\* snapshot after holds no relative state
NoRelativeState(after) ==
  ~after.isHiddenByPolicyFromRelativeParent /\ after.relativeLayerMetadata = {}

\* the walk changed nothing of the snapshot but its relative fields, its
\* visibility flag and its stored index
OnlyRelativeState(before, after) ==
  /\ Frozen(after) = Frozen(before)
  /\ after.isHiddenByPolicyFromParent = before.isHiddenByPolicyFromParent
  /\ after.layerMetadata = before.layerMetadata
  /\ after.changes = before.changes /\ after.contentDirty = before.contentDirty

\* the snapshot of key k as update() found it
Before(k) ==
  IF k \in DOMAIN heap THEN heap[k] ELSE NewSnapshot(layers[k.id], heap'[k].path)

\* C22 as stated: after a full walk every snapshot the walk visited over an
\* Attached edge is not hidden by policy from a relative parent and has no
\* relative metadata, and a snapshot visited on a relative path has only its
\* relative fields and its visibility flag recomputed.
C22_AttachedNeverRelative ==
  [][\A force \in BOOLEAN :
       (phase = "txn" /\ Update(force, "crash") /\ phase' = "updated"
        /\ last'.kind = "full")
       => /\ \A k \in (last'.touched \cup last'.relTouched) \cap DOMAIN heap' :
               AttachedEdge(k) => NoRelativeState(heap'[k])
          /\ \A k \in last'.relTouched \cap DOMAIN heap' :
               OnlyRelativeState(Before(k), heap'[k])]_vars

\* C22, amended: after a full walk every snapshot the walk visited over an
\* Attached edge on a path with no Relative edge is not hidden by policy from
\* a relative parent and has no relative metadata, whatever it held before;
\* a snapshot visited on a path with a Relative edge, at any depth, has only
\* its relative fields and its visibility flag recomputed.
C22_AttachedOffRelativePath ==
  [][\A force \in BOOLEAN :
       (phase = "txn" /\ Update(force, "crash") /\ phase' = "updated"
        /\ last'.kind = "full")
       => /\ \A k \in last'.touched \cap DOMAIN heap' :
               AttachedEdge(k) => NoRelativeState(heap'[k])
          /\ \A k \in last'.relTouched \cap DOMAIN heap' :
               OnlyRelativeState(Before(k), heap'[k])]_vars

\* a full walk that aggregated metadata visited, over an Attached edge off
\* every relative path, a snapshot of an earlier update that a transaction
\* relinked, and visited another snapshot on a relative path
C22_Witness ==
  /\ phase = "updated" /\ fault = "none" /\ last.kind = "full"
  /\ \E k \in last.touched \cap DOMAIN heap :
        /\ AttachedEdge(k) /\ NoRelativeState(heap[k])
        /\ "Hierarchy" \in layers[k.id].changes /\ "Created" \notin layers[k.id].changes
  /\ \E j \in last.relTouched \cap DOMAIN heap : heap[j].relativeLayerMetadata # {}

\* ---- the mode OBSCURED
\* the one flag the ordered choice of the mode OBSCURED marks
ObscuredChoice(snapshot, parentSnapshot) ==
  IF parentSnapshot.alpha # 100 THEN "DROP_INPUT"
  ELSE IF ~RectIsValid(snapshot.croppedBufferSize) THEN "DROP_INPUT_IF_OBSCURED"
  ELSE IF TransformRect(snapshot.geomLayerTransform, snapshot.croppedBufferSize)
          # snapshot.transformedBounds
  THEN "DROP_INPUT"
  ELSE "DROP_INPUT_IF_OBSCURED"

\* C23: a snapshot whose input an update() recomputed, of a layer with input
\* information, whose drop-input mode is OBSCURED: when the alpha of its
\* parent snapshot is not opaque DROP_INPUT is set and DROP_INPUT_IF_OBSCURED is
\* not added; else the flag is DROP_INPUT_IF_OBSCURED when the cropped buffer
\* size is not valid; else DROP_INPUT when the cropped buffer size under the
\* absolute transform differs from the transformed bounds, and
\* DROP_INPUT_IF_OBSCURED when it does not.
C23_ObscuredOrderedChoice ==
  [][\A force \in BOOLEAN :
       (phase = "txn" /\ Update(force, "crash") /\ phase' = "updated")
       => \A k \in last'.touched \cap DOMAIN heap' :
            (/\ InputRecomputed(heap'[k], force) /\ HasParentSnapshot(k)'
             /\ layers[k.id].hasInputInfo
             /\ heap'[k].dropInputMode = "OBSCURED")
            => LET choice == ObscuredChoice(heap'[k], ParentSnapshotOf(k)')
                   before == IF k \in DOMAIN heap THEN heap[k].inputInfo.inputConfig
                             ELSE {}
                   config == heap'[k].inputInfo.inputConfig
               IN /\ choice \in config
                  /\ ParentSnapshotOf(k)'.alpha # 100
                       => ("DROP_INPUT_IF_OBSCURED" \in config
                             => "DROP_INPUT_IF_OBSCURED" \in before)]_vars
\* the snapshot of a layer id that the store of the call under study lacks
Dangling(layerId) == getSnapshotOfLayerId(CropStore(call.present), layerId) = NullPtr

\* C24 (as stated): a touch crop layer without a snapshot leaves the touchable
\* region of the node as it was before the crop, and so does a cloned root
\* without a snapshot.
C24_DanglingLeavesRegion ==
  [][/\ (CallCropTouchableRegion /\ Dangling(call.touchCropId)) =>
          call'.snapshot.inputInfo.touchableRegion
            = call.snapshot.inputInfo.touchableRegion
     /\ (CallMarkClone /\ isClone(call.path)
          /\ Dangling(call.path.mirrorRootIds[Len(call.path.mirrorRootIds)])) =>
          call'.snapshot.inputInfo.touchableRegion
            = call.snapshot.inputInfo.touchableRegion]_vars

\* C24 (amended): a touch crop layer without a snapshot leaves the touchable
\* region as it was unless the region is to be replaced by the crop, and then
\* the region becomes the node's own transformed bounds in display space; a
\* cloned root without a snapshot leaves the region as it was.
C24_DanglingFallsBackToOwnBounds ==
  [][/\ (CallCropTouchableRegion /\ Dangling(call.touchCropId)) =>
          call'.snapshot.inputInfo.touchableRegion
            = IF call.snapshot.inputInfo.replaceTouchableRegionWithCrop
              THEN RegionOf(TransformRect(call.displayInfo.transform,
                                          call.snapshot.transformedBounds))
              ELSE call.snapshot.inputInfo.touchableRegion
     /\ (CallMarkClone /\ isClone(call.path)
          /\ Dangling(call.path.mirrorRootIds[Len(call.path.mirrorRootIds)])) =>
          call'.snapshot.inputInfo.touchableRegion
            = call.snapshot.inputInfo.touchableRegion]_vars

\* a call that went through both crops with a region to crop, a crop layer
\* that is set and a cloned root, neither of which has a snapshot
C24_Witness ==
  /\ call.fn = "updateInput" /\ call.done
  /\ call.touchCropId # UNASSIGNED_LAYER_ID /\ Dangling(call.touchCropId)
  /\ isClone(call.path) /\ Dangling(call.path.mirrorRootIds[Len(call.path.mirrorRootIds)])
  /\ call.snapshot.inputInfo.touchableRegion # {}
  /\ "CLONE" \in call.snapshot.inputInfo.inputConfig

\* C26: when update() has returned, no snapshot marked visible sits at a
\* higher position of mSnapshots than a snapshot marked not visible.
C26_VisiblePrefix ==
  phase = "updated" =>
    \A i, j \in 1..Len(mSnapshots) :
       (i < j /\ heap[mSnapshots[j]].isVisible) => heap[mSnapshots[i]].isVisible

\* C27: in every state, each snapshot of the store has a stored z index
\* smaller than the length of mSnapshots.
C27_StoredIndexAddressable ==
  \A k \in mIdToSnapshot : heap[k].globalZ < Len(mSnapshots)

\* the policy flags of an input descriptor
PolicyFlags ==
  {"DROP_INPUT", "DROP_INPUT_IF_OBSCURED", "NOT_TOUCHABLE", "TRUSTED_OVERLAY", "CLONE"}

\* the policy flags updateInput gives a snapshot that carries none, from the
\* layer, the parent snapshot and the display as they stand
FreshPolicyFlags(st, snapshot, requested, parentSnapshot, ds) ==
  updateInput(st, [snapshot EXCEPT !.inputInfo.inputConfig = {}], requested, parentSnapshot,
              displayInfoOf(ds, snapshot.layerStack),
              displaysOf(ds, snapshot.layerStack) = {},
              snapshot.path).inputInfo.inputConfig \cap PolicyFlags

\* C28: a snapshot whose input descriptor an update() recomputed carries the
\* policy flags that follow from its layer, its parent snapshot and its
\* display as they stand, and none that an earlier update set.
C28_PolicyFlagsNotSticky ==
  [][\A force \in BOOLEAN :
       (phase = "txn" /\ Update(force, "crash") /\ phase' = "updated")
       => \A k \in last'.touched \cap DOMAIN heap' :
            (InputRecomputed(heap'[k], force) /\ HasParentSnapshot(k)')
            => heap'[k].inputInfo.inputConfig \cap PolicyFlags
                 = FreshPolicyFlags(Store', heap'[k], layers[k.id], ParentSnapshotOf(k)',
                                    displays)]_vars

\* the input descriptor: frame, display-to-input transform, touchable region
\* and config flags
InputDescriptor(info) ==
  [frame |-> info.frame, transform |-> info.transform,
   touchableRegion |-> info.touchableRegion, inputConfig |-> info.inputConfig]

\* C29: a forced update recomputes the input descriptor of a snapshot, and a
\* second forced update with nothing changed in between recomputes it again:
\* the frame, the transform, the touchable region and the config flags after
\* the second are those after the first.
C29_ForcedUpdateIdempotentInput ==
  (call.fn = "forcedUpdateInput" /\ call.calls = 2) =>
    InputDescriptor(call.info) = InputDescriptor(call.before)

\* C30: when update() has returned after a full walk, a snapshot of the
\* store has a change bit or content-dirty set only if updateSnapshot ran on
\* it in that call.
C30_DirtyFlagsOfLastUpdate ==
  (phase = "updated" /\ fault = "none" /\ last.kind = "full") =>
    \A k \in mIdToSnapshot :
       (heap[k].changes # {} \/ heap[k].contentDirty) => k \in last.touched

\* C31: after a forced full walk, every visible snapshot of a window whose
\* layer has, at any depth above it along attached edges, a layer whose own
\* drop-input mode is ALL has DROP_INPUT set, whether or not the layers
\* between them are windows.
C31_DropInputInheritedThroughChain ==
  (phase = "updated" /\ fault = "none" /\ last.kind = "full" /\ last.force) =>
    \A k \in mIdToSnapshot :
       (/\ k.mirrorRootIds = <<>>
        /\ heap[k].isVisible
        /\ layers[k.id].hasInputInfo
        /\ \E a \in Alive(layers) :
              k.id \in AttachedBelow(a, 3) /\ layers[a].dropInputMode = "ALL")
       => "DROP_INPUT" \in heap[k].inputInfo.inputConfig

====
